---- MODULE Spec2Model ----
(***************************************************************************)
(* Model of the Akoma Ntoso conversion scripts:                            *)
(*   areiosPagosAknCliLegacyFast.py  (script "AP")                         *)
(*   steAknCliLegacyFast.py          (script "STE")                        *)
(* Spec      : the parallel batch (main, the worker pool, process_one).    *)
(* SpecDates : the dates-of-interest section of process_one on one         *)
(*             document (the publication-date cascade).                    *)
(* SpecOverride : the header / introduction override of the Council of     *)
(*             State script on one raw text.                               *)
(*   text_to_json.py                                                       *)
(* SpecSegment : segment_text and extract_outcome on one text.             *)
(* SpecIso   : to_iso_date on one date token.                              *)
(* SpecJson  : main of text_to_json.py over the TXT files of one folder.   *)
(* SpecTask  : process_one of either fast script on one file: the          *)
(*             named-entity merge steps, the write and the validation.     *)
(* SpecLegacy: one file given to a legacy sequential script                *)
(*             (createAreiosPagosJudgmentsAkn.py,                          *)
(*             createCouncilOfStateJudgmentsAkn.py) and to its fast        *)
(*             parallel counterpart.                                       *)
(***************************************************************************)
EXTENDS Integers, Sequences, FiniteSets, TLC

VARIABLES
    script,         \* which fast script runs: "AP" or "STE"
    nworkers,       \* args.workers
    tasks,          \* list(enumerate_tasks(...)), as a set of (root, name)
    tstate,         \* per task: "pending", "running", "returned", "raised"
    pos,            \* per task: position inside process_one
    exc,            \* per task: exception raised while it was processed ("" = none)
    status,         \* per task: the local variable status ("none" = unassigned)
    worker,         \* per worker process: the task it runs, or NoTask
    ctx,            \* per worker process: init_worker has run (REGEXES, XPATHS)
    xml,            \* written XML artifacts: set of [path, bytes]
    side,           \* written side text artifacts: set of [path, text, by]
    logs,           \* log entries: set of [path, entry]
    sideLost,       \* tasks whose side text write failed and was swallowed
    mainPc,         \* position of main
    consumed,       \* futures whose result main has aggregated
    done,           \* main's counter done
    ok,             \* main's counter ok
    interruptSeen,  \* main has observed a KeyboardInterrupt
    doc,            \* SpecDates: the document whose dates are resolved
    dpc,            \* SpecDates: position in the dates section
    pidx,           \* SpecDates: loop index over concl.findall('p')
    wf,             \* SpecDates: meta/workflow children (front first)
    refs,           \* SpecDates: meta/references children appended by _add_date
    frbrW,          \* SpecDates: FRBRWork/FRBRdate attributes
    frbrE,          \* SpecDates: FRBRExpression/FRBRdate attributes
    dateElems,      \* SpecDates: <date refersTo=..> elements inside conclusions
    attempts,       \* SpecDates: the _add_date calls made so far, in order
    raw,            \* SpecOverride: raw_lines
    opc,            \* SpecOverride: position in process_one
    fields,         \* SpecOverride: what the scan of lines 132-161 computed
    hdrNode,        \* SpecOverride: the header node of the tree
    introNode,      \* SpecOverride: the introduction node of the tree
    olog,           \* SpecOverride: log entries of the task
    ostatus,        \* SpecOverride: the local variable status
    text,           \* SpecSegment: the text given to segment_text
    spc,            \* SpecSegment: position
    offs,           \* SpecSegment: the offsets i_mot, i_dec, i_conc of segment_text
    seg,            \* SpecSegment: the dict segment_text returned
    outcome,        \* SpecSegment: what extract_outcome returned
    dateTok,        \* SpecIso: the (day, month_token, year) passed to to_iso_date
    ipc,            \* SpecIso: position
    iso,            \* SpecIso: what to_iso_date returned
    txt_files,      \* SpecJson: sorted(in_dir.glob("*.txt")), each with its text
    dry_run,        \* SpecJson: args.dry_run
    jpc,            \* SpecJson: position of main
    jidx,           \* SpecJson: the loop index i of main
    summary,        \* SpecJson: the dict summary
    jout,           \* SpecJson: the files under out_dir: [path, kind, of]
    gate,           \* SpecTask: the named-entity artifact: "absent", "wellformed", "malformed"
    hasRefs,        \* SpecTask: metaElem.find('references') is not None
    tpc,            \* SpecTask: position in process_one
    trefs,          \* SpecTask: the references node of metaElem
    ttext,          \* SpecTask: judgmentObj.text
    tlog,           \* SpecTask: the log of the task
    txml,           \* SpecTask: the XML artifact: "none", "partial", "written"
    tside,          \* SpecTask: the side text artifact: "none", "partial", "empty"
    tstatus,        \* SpecTask: the local variable status
    tvalidated,     \* SpecTask: validateXML has been called: "no", "valid", "invalid"
    traisedAt,      \* SpecTask: the position at which the try block was left by an exception
    lname,          \* SpecLegacy: the name of the input file, as tokens
    lfault,         \* SpecLegacy: what the parsers and the assembly raise on this file
    lraw,           \* SpecLegacy: the lines of the input file (Council of State)
    lran,           \* SpecLegacy: the scripts that have processed the file
    legacyOut,      \* SpecLegacy: what the legacy sequential script left for the file
    fastOut,        \* SpecLegacy: what the fast parallel script left for the file
    reqs,           \* parsingRequests collection: documents in insertion order
    now,            \* the clock read by datetime.utcnow()
    wpc,            \* parse_worker main: "idle", "run" or "end"
    pending,        \* the list main fetched, as positions in reqs
    wpos,           \* position in pending of the request being processed
    wcmd,           \* number of the next pipeline command of that request
    wlog            \* commands run so far: <<request, command, result>>

batchVars == <<script, nworkers, tasks, tstate, pos, exc, status, worker, ctx,
               xml, side, logs, sideLost, mainPc, consumed, done, ok, interruptSeen>>
dateVars == <<doc, dpc, pidx, wf, refs, frbrW, frbrE, dateElems, attempts>>
overrideVars == <<raw, opc, fields, hdrNode, introNode, olog, ostatus>>
segVars == <<text, spc, offs, seg, outcome>>
isoVars == <<dateTok, ipc, iso>>
jsonVars == <<txt_files, dry_run, jpc, jidx, summary, jout>>
earlyVars == <<batchVars, dateVars, overrideVars, segVars, isoVars>>
taskVars == <<gate, hasRefs, tpc, trefs, ttext, tlog, txml, tside, tstatus, tvalidated,
              traisedAt>>
legacyVars == <<lname, lfault, lraw, lran, legacyOut, fastOut>>
workerVars == <<reqs, now, wpc, pending, wpos, wcmd, wlog>>
lateVars == <<jsonVars, taskVars, legacyVars, workerVars>>
jsonFrame == <<earlyVars, taskVars, legacyVars, workerVars>>
taskFrame == <<earlyVars, jsonVars, legacyVars, workerVars>>
legacyFrame == <<earlyVars, jsonVars, taskVars, workerVars>>
workerFrame == <<earlyVars, jsonVars, taskVars, legacyVars>>
vars == <<earlyVars, lateVars>>

----------------------------------------------------------------------------
(* Bounds *)
MaxFiles == 2
MaxWorkers == 2
MaxParas == 3

(* File names are sequences of dot-separated components:                   *)
(* <<"A1_2020","v2","txt">> is the name "A1_2020.v2.txt".                  *)
TXT_EXT == "txt"
XML_EXT == "xml"

(* the files found by os.walk under the source path: (root, name) *)
WalkedFiles == { [root |-> "2019", name |-> <<"A1_2020", "txt">>],
                 [root |-> "2019", name |-> <<"A1_2020", "v2", "txt">>],
                 [root |-> "2019", name |-> <<"notes", "md">>],
                 [root |-> "2020", name |-> <<"A1_2020", "txt">>] }

Scripts == {"AP", "STE"}
NoTask == [root |-> "", name |-> <<>>]

(* fnmatch.fnmatch(name, '*' + TXT_EXT) *)
Matches(name) == Len(name) >= 2 /\ name[Len(name)] = TXT_EXT

(* enumerate_tasks: the walked files whose name matches the pattern *)
TaskPool == {f \in WalkedFiles : Matches(f.name)}

(* name.split('.')[0] : everything before the FIRST dot *)
SplitFirst(name) == <<name[1]>>

(* name.rsplit('.', 1)[0] : everything before the LAST dot *)
RSplitFirst(name) == IF Len(name) >= 2 THEN SubSeq(name, 1, Len(name) - 1) ELSE name

(* the basename without extension each script derives the XML name from *)
Stem(s, name) == IF s = "AP" THEN SplitFirst(name) ELSE RSplitFirst(name)

(* root.replace(base_texts_root, <tree>) joined with the file name *)
XmlPath(s, t) == [tree |-> "XML", root |-> t.root, base |-> Stem(s, t.name), ext |-> XML_EXT]
SidePath(s, t) == [tree |-> "XML", root |-> t.root, base |-> Stem(s, t.name), ext |-> TXT_EXT]
LogPath(s, t) == [tree |-> "LOGS", root |-> t.root, base |-> t.name, ext |-> ""]

(* the bytes process_one serialises for a task depend on its input only *)
Bytes(t) == <<t.root, t.name>>

StatusSet == {"ok", "xml_syntax_error", "unhandled_error", "skipped"}

(* Handler with the KeyboardInterrupt clause missing: the interrupt falls  *)
(* into the generic clause like any other exception.                       *)
HandlerSwallowsInterrupt(s, e) ==
    IF s = "AP"
    THEN IF e = "XMLSyntaxError"
         THEN [status |-> "xml_syntax_error", propagate |-> FALSE, err |-> TRUE, side |-> "partial"]
         ELSE [status |-> "unhandled_error", propagate |-> FALSE, err |-> TRUE, side |-> "empty"]
    ELSE [status |-> "error", propagate |-> FALSE, err |-> TRUE, side |-> "none"]

(* The except clauses of process_one: what happens to an exception raised  *)
(* inside the try block.                                                   *)
Handler(s, e) ==
    IF e = "KeyboardInterrupt"
    THEN [status |-> "none", propagate |-> TRUE, err |-> FALSE, side |-> "none"]
    ELSE IF s = "AP"
    THEN IF e = "XMLSyntaxError"
         THEN [status |-> "xml_syntax_error", propagate |-> FALSE, err |-> TRUE, side |-> "partial"]
         ELSE [status |-> "unhandled_error", propagate |-> FALSE, err |-> TRUE, side |-> "empty"]
    ELSE [status |-> "error", propagate |-> FALSE, err |-> TRUE, side |-> "none"]

Workers == 1..nworkers
PoolAlive == mainPc \in {"collect", "exiting"}
Put(store, p, rec) == {e \in store : e.path # p} \cup {rec}

----------------------------------------------------------------------------
(* Idle values of the SpecDates variables *)
NoDate == "none"
NoDoc == [hdr |-> NoDate, conf |-> NoDate, block |-> NoDate, ps |-> <<>>, hasRefs |-> TRUE]
NoStamp == [date |-> NoDate, name |-> ""]

DatesIdle ==
    /\ doc = NoDoc
    /\ dpc = "off"
    /\ pidx = 0
    /\ wf = <<>>
    /\ refs = <<>>
    /\ frbrW = NoStamp
    /\ frbrE = NoStamp
    /\ dateElems = {}
    /\ attempts = <<>>

(* Values of the variables of the single-document specifications while    *)
(* another specification runs.                                             *)
None == <<"None">>
NoNode == [children |-> <<>>, marked |-> FALSE]
NoFields == [idx_num |-> 0, intro_idx |-> 0, docNumber |-> <<>>, docProponent |-> <<>>,
             subDepartment |-> <<>>, headerDetails |-> <<>>, introduction_block |-> <<>>]
NoSeg == [introduction |-> <<>>, motivation |-> <<>>, decision_text |-> <<>>, conclusions |-> <<>>]
NoOffsets == [i_mot |-> -1, i_dec |-> -1, i_conc |-> -1]
NoTok == [day |-> <<>>, month |-> <<>>, year |-> <<>>, spelling |-> <<>>, kw |-> FALSE]

OverrideIdle ==
    /\ raw = <<>>
    /\ opc = "off"
    /\ fields = NoFields
    /\ hdrNode = NoNode
    /\ introNode = NoNode
    /\ olog = {}
    /\ ostatus = "none"

SegIdle ==
    /\ text = <<>>
    /\ spc = "off"
    /\ offs = NoOffsets
    /\ seg = NoSeg
    /\ outcome = None

IsoIdle ==
    /\ dateTok = NoTok
    /\ ipc = "off"
    /\ iso = None

NoSummary == [ok |-> 0, errors |-> 0, items |-> <<>>]

JsonIdle ==
    /\ txt_files = <<>>
    /\ dry_run = FALSE
    /\ jpc = "off"
    /\ jidx = 0
    /\ summary = NoSummary
    /\ jout = {}

TaskIdle ==
    /\ gate = "absent"
    /\ hasRefs = FALSE
    /\ tpc = "off"
    /\ trefs = "none"
    /\ ttext = "none"
    /\ tlog = {}
    /\ txml = "none"
    /\ tside = "none"
    /\ tstatus = "none"
    /\ tvalidated = "no"
    /\ traisedAt = "none"

NoOut == [wrote |-> FALSE, xml |-> [none |-> TRUE], side |-> "none"]

LegacyIdle ==
    /\ lname = <<>>
    /\ lfault = "off"
    /\ lraw = <<>>
    /\ lran = {}
    /\ legacyOut = NoOut
    /\ fastOut = NoOut

WorkerIdle ==
    /\ reqs = <<>>
    /\ now = 0
    /\ wpc = "off"
    /\ pending = <<>>
    /\ wpos = 0
    /\ wcmd = 0
    /\ wlog = <<>>

LateIdle == JsonIdle /\ TaskIdle /\ LegacyIdle /\ WorkerIdle

(* State after main has enumerated the tasks and entered the pool block *)
Init ==
    /\ script \in Scripts
    /\ nworkers \in 1..MaxWorkers
    /\ tasks \in {T \in SUBSET TaskPool : Cardinality(T) <= MaxFiles}
    /\ tstate = [t \in tasks |-> "pending"]
    /\ pos = [t \in tasks |-> "none"]
    /\ exc = [t \in tasks |-> ""]
    /\ status = [t \in tasks |-> "none"]
    /\ worker = [w \in 1..nworkers |-> NoTask]
    /\ ctx = [w \in 1..nworkers |-> FALSE]
    /\ xml = {}
    /\ side = {}
    /\ logs = {}
    /\ sideLost = {}
    /\ mainPc = IF tasks = {} THEN "nofiles" ELSE "collect"
    /\ consumed = {}
    /\ done = 0
    /\ ok = 0
    /\ interruptSeen = FALSE
    /\ DatesIdle
    /\ OverrideIdle
    /\ SegIdle
    /\ IsoIdle
    /\ LateIdle

(* init_worker: once per worker process *)
InitWorker(w) ==
    /\ PoolAlive
    /\ ~ctx[w]
    /\ ctx' = [ctx EXCEPT ![w] = TRUE]
    /\ UNCHANGED <<script, nworkers, tasks, tstate, pos, exc, status, worker,
                   xml, side, logs, sideLost, mainPc, consumed, done, ok, interruptSeen>>
    /\ UNCHANGED <<dateVars, overrideVars, segVars, isoVars, lateVars>>

(* A worker takes a pending call and runs process_one up to the try:       *)
(* paths, os.makedirs, setupLogger, logger.info('Starting ...').           *)
(* These statements are outside the try block: if one raises (fails), the  *)
(* exception leaves process_one and is stored in the future.               *)
Start(w, t, fails) ==
    /\ PoolAlive
    /\ ctx[w]
    /\ worker[w] = NoTask
    /\ tstate[t] = "pending"
    /\ IF fails
       THEN /\ tstate' = [tstate EXCEPT ![t] = "raised"]
            /\ exc' = [exc EXCEPT ![t] = "OSError"]
            /\ UNCHANGED <<pos, worker, logs>>
       ELSE /\ tstate' = [tstate EXCEPT ![t] = "running"]
            /\ pos' = [pos EXCEPT ![t] = "try"]
            /\ worker' = [worker EXCEPT ![w] = t]
            /\ logs' = logs \cup {[path |-> LogPath(script, t), entry |-> "starting"]}
            /\ UNCHANGED exc
    /\ UNCHANGED <<script, nworkers, tasks, status, ctx, xml, side, sideLost,
                   mainPc, consumed, done, ok, interruptSeen>>
    /\ UNCHANGED <<dateVars, overrideVars, segVars, isoVars, lateVars>>

(* metadata, the two parser passes, AknJudgementXML(...): judgmentObj bound *)
Build(w, t) ==
    /\ worker[w] = t
    /\ tstate[t] = "running"
    /\ pos[t] = "try"
    /\ pos' = [pos EXCEPT ![t] = "built"]
    /\ UNCHANGED <<script, nworkers, tasks, tstate, exc, status, worker, ctx,
                   xml, side, logs, sideLost, mainPc, consumed, done, ok, interruptSeen>>
    /\ UNCHANGED <<dateVars, overrideVars, segVars, isoVars, lateVars>>

(* assembly, dates, etree.tostring, open(xml_file).write(xml_bytes) *)
WriteXml(w, t) ==
    /\ worker[w] = t
    /\ tstate[t] = "running"
    /\ pos[t] = "built"
    /\ pos' = [pos EXCEPT ![t] = "written"]
    /\ xml' = Put(xml, XmlPath(script, t), [path |-> XmlPath(script, t), bytes |-> Bytes(t)])
    /\ UNCHANGED <<script, nworkers, tasks, tstate, exc, status, worker, ctx,
                   side, logs, sideLost, mainPc, consumed, done, ok, interruptSeen>>
    /\ UNCHANGED <<dateVars, overrideVars, segVars, isoVars, lateVars>>

(* validateXML, status = 'ok', finally: logger.info('Finished'), return *)
FinishOk(w, t) ==
    /\ worker[w] = t
    /\ tstate[t] = "running"
    /\ pos[t] = "written"
    /\ status' = [status EXCEPT ![t] = "ok"]
    /\ tstate' = [tstate EXCEPT ![t] = "returned"]
    /\ pos' = [pos EXCEPT ![t] = "end"]
    /\ worker' = [worker EXCEPT ![w] = NoTask]
    /\ logs' = logs \cup {[path |-> LogPath(script, t), entry |-> "finished"]}
    /\ UNCHANGED <<script, nworkers, tasks, exc, ctx, xml, side, sideLost,
                   mainPc, consumed, done, ok, interruptSeen>>
    /\ UNCHANGED <<dateVars, overrideVars, segVars, isoVars, lateVars>>

(* An exception e is raised inside the try block; the matching except      *)
(* clause and the finally clause run.  sideOk: the open()/write of the     *)
(* side text file succeeded (its failure is swallowed by except: pass).    *)
Raise(w, t, e, sideOk) ==
    /\ worker[w] = t
    /\ tstate[t] = "running"
    /\ pos[t] \in {"try", "built", "written"}
    /\ e = "XMLSyntaxError" => pos[t] \in {"built", "written"}
    /\ LET h == Handler(script, e) IN
       /\ status' = [status EXCEPT ![t] = h.status]
       /\ tstate' = [tstate EXCEPT ![t] = IF h.propagate THEN "raised" ELSE "returned"]
       /\ exc' = [exc EXCEPT ![t] = e]
       /\ logs' = logs
                  \cup (IF h.err THEN {[path |-> LogPath(script, t), entry |-> "error"]} ELSE {})
                  \cup {[path |-> LogPath(script, t), entry |-> "finished"]}
       /\ side' = IF h.side # "none" /\ sideOk
                  THEN Put(side, SidePath(script, t),
                           [path |-> SidePath(script, t),
                            text |-> IF h.side = "partial" THEN <<"body", Bytes(t)>> ELSE <<>>,
                            by |-> t])
                  ELSE side
       /\ sideLost' = IF h.side # "none" /\ ~sideOk THEN sideLost \cup {t} ELSE sideLost
    /\ pos' = [pos EXCEPT ![t] = "end"]
    /\ worker' = [worker EXCEPT ![w] = NoTask]
    /\ UNCHANGED <<script, nworkers, tasks, ctx, xml,
                   mainPc, consumed, done, ok, interruptSeen>>
    /\ UNCHANGED <<dateVars, overrideVars, segVars, isoVars, lateVars>>

(* main: one iteration of `for fut in as_completed(futs)`: fut.result()    *)
(* returns the tuple (counters updated) or re-raises the stored exception, *)
(* which leaves the loop and enters the pool's __exit__.                    *)
Collect(t) ==
    /\ mainPc = "collect"
    /\ t \in tasks \ consumed
    /\ tstate[t] \in {"returned", "raised"}
    /\ IF tstate[t] = "returned"
       THEN /\ consumed' = consumed \cup {t}
            /\ done' = done + 1
            /\ ok' = ok + (IF status[t] = "ok" THEN 1 ELSE 0)
            /\ mainPc' = IF consumed' = tasks THEN "summary" ELSE "collect"
            /\ UNCHANGED interruptSeen
       ELSE /\ mainPc' = "exiting"
            /\ interruptSeen' = (exc[t] = "KeyboardInterrupt")
            /\ UNCHANGED <<consumed, done, ok>>
    /\ UNCHANGED <<script, nworkers, tasks, tstate, pos, exc, status, worker, ctx,
                   xml, side, logs, sideLost>>
    /\ UNCHANGED <<dateVars, overrideVars, segVars, isoVars, lateVars>>

(* KeyboardInterrupt delivered to main while it waits in as_completed *)
MainInterrupt ==
    /\ mainPc = "collect"
    /\ mainPc' = "exiting"
    /\ interruptSeen' = TRUE
    /\ UNCHANGED <<script, nworkers, tasks, tstate, pos, exc, status, worker, ctx,
                   xml, side, logs, sideLost, consumed, done, ok>>
    /\ UNCHANGED <<dateVars, overrideVars, segVars, isoVars, lateVars>>

(* ProcessPoolExecutor.__exit__ = shutdown(wait=True): returns once every  *)
(* submitted call has run; then the exception leaves main (no summary).    *)
ShutdownDone ==
    /\ mainPc = "exiting"
    /\ \A t \in tasks : tstate[t] \in {"returned", "raised"}
    /\ mainPc' = "aborted"
    /\ UNCHANGED <<script, nworkers, tasks, tstate, pos, exc, status, worker, ctx,
                   xml, side, logs, sideLost, consumed, done, ok, interruptSeen>>
    /\ UNCHANGED <<dateVars, overrideVars, segVars, isoVars, lateVars>>

ExcTypes == {"XMLSyntaxError", "Exception", "KeyboardInterrupt"}

Next ==
    \/ \E w \in Workers : InitWorker(w)
    \/ \E w \in Workers, t \in tasks, f \in BOOLEAN : Start(w, t, f)
    \/ \E w \in Workers, t \in tasks : Build(w, t)
    \/ \E w \in Workers, t \in tasks : WriteXml(w, t)
    \/ \E w \in Workers, t \in tasks : FinishOk(w, t)
    \/ \E w \in Workers, t \in tasks, e \in ExcTypes, b \in BOOLEAN : Raise(w, t, e, b)
    \/ \E t \in tasks : Collect(t)
    \/ MainInterrupt
    \/ ShutdownDone

Spec == Init /\ [][Next]_vars

----------------------------------------------------------------------------
(* Claims about the batch, checked under Spec *)

(* C1: a failure raised while one file is processed never terminates the   *)
(* batch: main leaves its result loop early (no summary) only when a       *)
(* cancellation was observed, never because of a file's failure.           *)
C1_FailureNeverTerminatesBatch ==
    mainPc \in {"exiting", "aborted"} => interruptSeen

(* C2: two distinct enumerated files never map to the same XML, log or     *)
(* side-text output path.                                                  *)
C2_DistinctOutputPaths ==
    \A t1 \in tasks, t2 \in tasks :
        t1 # t2 => /\ XmlPath(script, t1) # XmlPath(script, t2)
                   /\ LogPath(script, t1) # LogPath(script, t2)
                   /\ SidePath(script, t1) # SidePath(script, t2)

(* C3: every result returned by process_one carries a status from the set  *)
(* {ok, xml_syntax_error, unhandled_error, skipped}.                       *)
C3_StatusInSet ==
    \A t \in tasks : tstate[t] = "returned" => status[t] \in StatusSet

(* C4: every task that ends non-ok ended in xml_syntax_error or            *)
(* unhandled_error and left a side text artifact (unless the write of the  *)
(* side file itself failed).                                               *)
C4_NonOkLeavesSideText ==
    \A t \in tasks :
        (tstate[t] = "returned" /\ status[t] # "ok" /\ t \notin sideLost)
        => /\ status[t] \in {"xml_syntax_error", "unhandled_error"}
           /\ \E e \in side : e.path = SidePath(script, t)

(* C5: a KeyboardInterrupt raised while a file is processed propagates out *)
(* of process_one: no status is assigned, no result is returned, no side   *)
(* file is written by the task, no error entry is logged for the file and  *)
(* main's per-file bookkeeping never counts it.                            *)
C5_InterruptNotSwallowed ==
    \A t \in tasks :
        exc[t] = "KeyboardInterrupt" =>
            /\ tstate[t] = "raised"
            /\ status[t] = "none"
            /\ ~(\E e \in side : e.by = t)
            /\ [path |-> LogPath(script, t), entry |-> "error"] \notin logs
            /\ t \notin consumed

C5_Witness ==
    \E t \in tasks :
        /\ exc[t] = "KeyboardInterrupt"
        /\ pos[t] = "end"
        /\ interruptSeen
        /\ mainPc = "aborted"

(* C6: once main has observed an interrupt, no pending task is started.    *)
C6_NoStartAfterInterrupt ==
    [][interruptSeen => \A t \in tasks : (tstate[t] = "pending" => tstate'[t] = "pending")]_vars

(* C7: the XML artifacts left by a completed batch are the same in every   *)
(* run: when the summary is printed, the artifact of every file that       *)
(* reported ok holds that file's bytes, whatever the completion order.     *)
C7_ArtifactsIndependentOfSchedule ==
    mainPc = "summary" =>
        \A t \in tasks :
            status[t] = "ok" =>
                [path |-> XmlPath(script, t), bytes |-> Bytes(t)] \in xml

----------------------------------------------------------------------------
(* The dates-of-interest section of process_one, on one document.          *)

Dates == {"2024-02-20", "2024-03-05"}
DateOrNone == Dates \cup {NoDate}
Kinds == {"publicHearingDate", "courtConferenceDate", "decisionPublicationDate"}
PUB == "decisionPublicationDate"

(* A <p> of <conclusions>: kw = its text contains 'ΔΗΜΟΣΙΕΥΘΗΚΕ';          *)
(* date = the date expression written in it; ctx = the date stands in the  *)
(* phrasing the publication-date pattern requires.                         *)
Paras == [kw : BOOLEAN, date : DateOrNone, ctx : BOOLEAN]
ParaSeqs == UNION {[1..n -> Paras] : n \in 0..MaxParas}

Hdr == <<"header">>
Concl == <<"conclusions">>
P(i) == <<"p", i>>

(* findDatesOfInterest(node, regex, name, author) of functions.py: the     *)
(* date the pattern of the kind finds in the region, or NoDate (a falsy    *)
(* result).  The same node, pattern and kind always give the same result.  *)
findDatesOfInterest(d, node, kind) ==
    IF node = Hdr THEN (IF kind = "publicHearingDate" THEN d.hdr ELSE NoDate)
    ELSE IF node = Concl
    THEN (IF kind = "courtConferenceDate" THEN d.conf
          ELSE IF kind = PUB THEN d.block ELSE NoDate)
    ELSE IF kind = PUB /\ d.ps[node[2]].ctx THEN d.ps[node[2]].date
    ELSE NoDate

(* concl.find('.//date[@refersTo="decisionPublicationDate"]'): the first   *)
(* matching <date> element below <conclusions>, or None.  The element is a *)
(* leaf: it has text and no child elements.                                *)
NoElem == [tag |-> "None", nchildren |-> 0]
FindPubDateElem(elems) ==
    IF \E e \in elems : e.kind = PUB /\ e.node # Hdr
    THEN [tag |-> "date", nchildren |-> 0]
    ELSE NoElem

(* bool(element) in lxml: an element is true iff it has child elements;    *)
(* None is false.                                                          *)
Truthy(elem) == elem # NoElem /\ elem.nchildren > 0

(* where control goes after the per-paragraph loop: line 168 *)
AfterLoop(elems) == IF ~Truthy(FindPubDateElem(elems)) THEN "pub3" ELSE "done"

(* where control goes after the whole-block call: lines 162-163 *)
AfterWhole(elems) ==
    IF script = "STE" THEN "done"
    ELSE IF ~Truthy(FindPubDateElem(elems)) /\ Len(doc.ps) > 0 THEN "pub2"
    ELSE AfterLoop(elems)

(* ps[:-1] scanned for the first paragraph holding the keyword: lines 170-171 *)
KeywordIdx ==
    LET S == {i \in 1..(Len(doc.ps) - 1) : doc.ps[i].kw}
    IN IF S = {} THEN 0 ELSE CHOOSE i \in S : \A j \in S : i <= j

(* add_date with the workflow step appended at the end of the workflow     *)
(* instead of inserted at its front.                                       *)
AddDateAppendsStep(node, kind, rule) ==
    LET res == findDatesOfInterest(doc, node, kind) IN
    /\ attempts' = Append(attempts, [rule |-> rule, node |-> node, kind |-> kind, hit |-> res])
    /\ IF res = NoDate
       THEN UNCHANGED <<wf, refs, frbrW, frbrE, dateElems>>
       ELSE /\ wf' = Append(wf, [kind |-> kind, date |-> res])
            /\ refs' = IF doc.hasRefs THEN Append(refs, [kind |-> kind]) ELSE refs
            /\ frbrW' = [date |-> res, name |-> kind]
            /\ frbrE' = [date |-> res, name |-> kind]
            /\ dateElems' = dateElems \cup {[kind |-> kind, node |-> node]}

(* _add_date / add_date: one call.  rule tags the call site.  On success   *)
(* the resolver leaves a <date refersTo=kind> element in the node.         *)
AddDate(node, kind, rule) ==
    LET res == findDatesOfInterest(doc, node, kind) IN
    /\ attempts' = Append(attempts, [rule |-> rule, node |-> node, kind |-> kind, hit |-> res])
    /\ IF res = NoDate
       THEN UNCHANGED <<wf, refs, frbrW, frbrE, dateElems>>
       ELSE /\ wf' = <<[kind |-> kind, date |-> res]>> \o wf
            /\ refs' = IF doc.hasRefs THEN Append(refs, [kind |-> kind]) ELSE refs
            /\ frbrW' = [date |-> res, name |-> kind]
            /\ frbrE' = [date |-> res, name |-> kind]
            /\ dateElems' = dateElems \cup {[kind |-> kind, node |-> node]}

BatchIdle ==
    /\ nworkers = 1
    /\ tasks = {}
    /\ tstate = <<>>
    /\ pos = <<>>
    /\ exc = <<>>
    /\ status = <<>>
    /\ worker = [w \in 1..1 |-> NoTask]
    /\ ctx = [w \in 1..1 |-> TRUE]
    /\ xml = {}
    /\ side = {}
    /\ logs = {}
    /\ sideLost = {}
    /\ mainPc = "off"
    /\ consumed = {}
    /\ done = 0
    /\ ok = 0
    /\ interruptSeen = FALSE

(* the document tree as assembled just before the dates section *)
InitDates ==
    /\ script \in Scripts
    /\ BatchIdle
    /\ doc \in [hdr : {NoDate, "2024-02-20"}, conf : {NoDate, "2024-02-20"},
                block : DateOrNone, ps : ParaSeqs, hasRefs : BOOLEAN]
    /\ script = "AP" => doc.hasRefs
    /\ script = "STE" => Len(doc.ps) <= 1
    /\ dpc = "hearing"
    /\ pidx = 0
    /\ wf = <<>>
    /\ refs = <<>>
    /\ frbrW = NoStamp
    /\ frbrE = NoStamp
    /\ dateElems = {}
    /\ attempts = <<>>
    /\ OverrideIdle
    /\ SegIdle
    /\ IsoIdle
    /\ LateIdle

(* _add_date(hdr, REGEXES['public'], 'publicHearingDate', ...) *)
AddHearing ==
    /\ dpc = "hearing"
    /\ AddDate(Hdr, "publicHearingDate", 0)
    /\ dpc' = "conf"
    /\ UNCHANGED <<doc, pidx>>
    /\ UNCHANGED <<batchVars, overrideVars, segVars, isoVars, lateVars>>

(* _add_date(concl, REGEXES['conf'], 'courtConferenceDate', ...) *)
AddConference ==
    /\ dpc = "conf"
    /\ AddDate(Concl, "courtConferenceDate", 0)
    /\ dpc' = "pub1"
    /\ UNCHANGED <<doc, pidx>>
    /\ UNCHANGED <<batchVars, overrideVars, segVars, isoVars, lateVars>>

(* rule 1: _add_date(concl, REGEXES['pub'], 'decisionPublicationDate', ...) *)
(* followed by the test of line 162                                         *)
AddPubWhole ==
    /\ dpc = "pub1"
    /\ AddDate(Concl, PUB, 1)
    /\ dpc' = AfterWhole(dateElems')
    /\ pidx' = IF dpc' = "pub2" THEN 1 ELSE pidx
    /\ UNCHANGED doc
    /\ UNCHANGED <<batchVars, overrideVars, segVars, isoVars, lateVars>>

(* rule 2: one iteration of `for p in concl.findall('p')`, lines 163-166 *)
AddPubPara ==
    /\ dpc = "pub2"
    /\ AddDate(P(pidx), PUB, 2)
    /\ IF Truthy(FindPubDateElem(dateElems'))
       THEN /\ dpc' = AfterLoop(dateElems')
            /\ UNCHANGED pidx
       ELSE IF pidx < Len(doc.ps)
       THEN /\ pidx' = pidx + 1
            /\ UNCHANGED dpc
       ELSE /\ dpc' = AfterLoop(dateElems')
            /\ UNCHANGED pidx
    /\ UNCHANGED doc
    /\ UNCHANGED <<batchVars, overrideVars, segVars, isoVars, lateVars>>

(* rule 3: lines 169-173, the keyword paragraph and the one after it *)
AddPubKeyword ==
    /\ dpc = "pub3"
    /\ IF KeywordIdx = 0
       THEN UNCHANGED <<wf, refs, frbrW, frbrE, dateElems, attempts>>
       ELSE AddDate(P(KeywordIdx + 1), PUB, 3)
    /\ dpc' = "done"
    /\ UNCHANGED <<doc, pidx>>
    /\ UNCHANGED <<batchVars, overrideVars, segVars, isoVars, lateVars>>

NextDates ==
    \/ AddHearing
    \/ AddConference
    \/ AddPubWhole
    \/ AddPubPara
    \/ AddPubKeyword

SpecDates == InitDates /\ [][NextDates]_vars

----------------------------------------------------------------------------
(* Claims about the date cascade, checked under SpecDates *)

PubAttempts == SelectSeq(attempts, LAMBDA a : a.kind = PUB)

(* C8: the publication-date cascade has strict precedence: once a rule has *)
(* succeeded, no later rule and no later paragraph is evaluated.           *)
C8_FirstSuccessWins ==
    \A i \in 1..Len(PubAttempts) :
        PubAttempts[i].hit # NoDate => i = Len(PubAttempts)

(* C9: for each date kind at most one workflow step and at most one        *)
(* reference entry of that kind have been added to the document.           *)
C9_AtMostOnePerKind ==
    \A k \in Kinds :
        /\ Cardinality({i \in 1..Len(wf) : wf[i].kind = k}) <= 1
        /\ Cardinality({i \in 1..Len(refs) : refs[i].kind = k}) <= 1

(* C10: when the whole-block and per-paragraph rules resolved nothing, the *)
(* keyword rule tries only the paragraph right after the keyword paragraph *)
(* and a date written in that paragraph becomes decisionPublicationDate.   *)
C10_KeywordRuleResolves ==
    (/\ script = "AP"
     /\ dpc = "done"
     /\ KeywordIdx # 0
     /\ \A i \in 1..Len(attempts) : attempts[i].rule \in {1, 2} => attempts[i].hit = NoDate)
    => /\ \A i \in 1..Len(attempts) :
              attempts[i].rule = 3 => attempts[i].node = P(KeywordIdx + 1)
       /\ doc.ps[KeywordIdx + 1].date # NoDate
              => /\ frbrW = [date |-> doc.ps[KeywordIdx + 1].date, name |-> PUB]
                 /\ \E j \in 1..Len(wf) :
                        wf[j] = [kind |-> PUB, date |-> doc.ps[KeywordIdx + 1].date]

Hits == SelectSeq(attempts, LAMBDA a : a.hit # NoDate)

(* C11: one resolution applies its four effects together: the workflow has *)
(* as many steps as resolutions succeeded, the references as many entries, *)
(* and the two FRBR dates are stamped exactly when a resolution succeeded. *)
C11_FourEffectsTogether ==
    /\ Len(wf) = Len(Hits)
    /\ Len(refs) = Len(Hits)
    /\ (Len(Hits) = 0) <=> (frbrW = NoStamp)
    /\ (Len(Hits) = 0) <=> (frbrE = NoStamp)

(* C12: after any resolution the work date and the expression date are     *)
(* the same stamp, it is the stamp of the most recent resolution, and that *)
(* resolution's step is the first entry of the workflow.                   *)
C12_FrbrIsMostRecentAndFront ==
    Len(Hits) > 0 =>
        LET last == Hits[Len(Hits)] IN
        /\ frbrW = frbrE
        /\ frbrW = [date |-> last.hit, name |-> last.kind]
        /\ Len(wf) > 0
        /\ wf[1] = [kind |-> last.kind, date |-> last.hit]

C12_Witness ==
    /\ dpc = "done"
    /\ Len(wf) >= 2
    /\ wf[1].kind # wf[2].kind
    /\ wf[1].date # wf[2].date
    /\ frbrW = [date |-> wf[1].date, name |-> wf[1].kind]

----------------------------------------------------------------------------
(* The header / introduction override of steAknCliLegacyFast.process_one.  *)
(* A raw line is its words (separated by single spaces) and whether it has *)
(* surrounding whitespace.  Indices are 1-based; 0 stands for Python's -1. *)
(* Greek words are written in Latin letters, an apostrophe after a vowel   *)
(* standing for its accent: Ariqmo's 123/2024, Gia na dika'sei,            *)
(* To Dikasth'rio, Tmh'ma B1.                                              *)

MaxLines == 6

Blank == [ws |-> FALSE, words |-> <<>>]
NumLine == [ws |-> FALSE, words |-> <<"Ariqmo's", "123/2024">>]
TrialLine == [ws |-> FALSE, words |-> <<"Gia", "na", "dika'sei">>]
CourtLine == [ws |-> FALSE, words |-> <<"To", "Dikasth'rio">>]
DeptLine == [ws |-> TRUE, words |-> <<"Tmh'ma", "B1">>]
LinePool == {Blank, NumLine, TrialLine, CourtLine, DeptLine}
RawTexts == UNION {[1..n -> LinePool] : n \in 0..MaxLines}

(* str.strip() of a line: the surrounding whitespace goes, the words stay *)
strip(line) == line.words

(* lower() and removal of the combining marks, word by word *)
Fold(w) ==
    CASE w = "Ariqmo's" -> "ariqmos"
      [] w = "Gia" -> "gia"
      [] w = "dika'sei" -> "dikasei"
      [] w = "To" -> "to"
      [] w = "Dikasth'rio" -> "dikasthrio"
      [] w = "Tmh'ma" -> "tmhma"
      [] w = "B1" -> "b1"
      [] OTHER -> w

normalize_gr(line) == [i \in 1..Len(strip(line)) |-> Fold(strip(line)[i])]

(* ln.startswith('ariqmos') or ln.startswith('ariqm.') *)
IsNumberLine(ln) == Len(ln) >= 1 /\ ln[1] \in {"ariqmos", "ariqm."}

(* ln.startswith('gia na dik') *)
IsTrialLine(ln) ==
    Len(ln) >= 3 /\ ln[1] = "gia" /\ ln[2] = "na" /\ ln[3] \in {"dikasei", "dikastei"}

(* find_index(lines, predicate), the predicate given as the set of the     *)
(* lines that satisfy it                                                   *)
find_index(lines, satisfying) ==
    LET sat == satisfying
        hits == {i \in 1..Len(lines) : lines[i] \in sat}
    IN  IF hits = {} THEN 0 ELSE CHOOSE i \in hits : \A j \in hits : i <= j

NumberLines(lines) == {lines[i] : i \in {j \in 1..Len(lines) : IsNumberLine(lines[j])}}
TrialLines(lines) == {lines[i] : i \in {j \in 1..Len(lines) : IsTrialLine(lines[j])}}

(* while idx < len(raw_lines) and not raw_lines[idx].strip(): idx += 1 *)
SkipBlank(lines, idx) ==
    LET stop == {j \in idx..Len(lines) : strip(lines[j]) # <<>>} IN
    IF stop # {} THEN CHOOSE j \in stop : \A k \in stop : j <= k
    ELSE IF idx > Len(lines) THEN idx ELSE Len(lines) + 1

(* while j < len(raw_lines) and raw_lines[j].strip(): j += 1 *)
SkipText(lines, j) ==
    LET stop == {k \in j..Len(lines) : strip(lines[k]) = <<>>} IN
    IF stop # {} THEN CHOOSE k \in stop : \A m \in stop : k <= m
    ELSE IF j > Len(lines) THEN j ELSE Len(lines) + 1

(* " ".join(ln.strip() for ln in lines if ln.strip()) *)
RECURSIVE JoinLines(_)
JoinLines(lines) ==
    IF lines = <<>> THEN <<>> ELSE strip(Head(lines)) \o JoinLines(Tail(lines))

(* the paragraphs of introduction_block: "\n\n".join(..).strip(), then     *)
(* split('\n\n') without the empty pieces, each stripped                   *)
RECURSIVE Paragraphs(_)
Paragraphs(lines) ==
    IF lines = <<>> THEN <<>>
    ELSE (IF strip(Head(lines)) = <<>> THEN <<>> ELSE <<strip(Head(lines))>>)
         \o Paragraphs(Tail(lines))

(* lines 128-161 with hd_start one line too early: the sub-department line *)
(* is taken into the header details as well.                               *)
ScanKeepsDeptInDetails(lines) ==
    LET raw_norm == [i \in 1..Len(lines) |-> normalize_gr(lines[i])]
        idx_num == find_index(raw_norm, NumberLines(raw_norm))
        intro_idx == find_index(raw_norm, TrialLines(raw_norm))
        idxP == SkipBlank(lines, idx_num + 1)
        idxS == SkipBlank(lines, idxP + 1)
        hd_start == idxS
        hdr_slice == IF intro_idx # 0
                     THEN SubSeq(lines, hd_start, intro_idx - 1)
                     ELSE SubSeq(lines, hd_start, SkipText(lines, hd_start) - 1)
    IN  [idx_num |-> idx_num,
         intro_idx |-> intro_idx,
         docNumber |-> IF idx_num # 0 THEN Tail(strip(lines[idx_num])) ELSE <<>>,
         docProponent |-> IF idx_num # 0 /\ idxP <= Len(lines) THEN strip(lines[idxP]) ELSE <<>>,
         subDepartment |-> IF idx_num # 0 /\ idxS <= Len(lines) THEN strip(lines[idxS]) ELSE <<>>,
         headerDetails |-> IF idx_num # 0 THEN JoinLines(hdr_slice) ELSE <<>>,
         introduction_block |-> IF intro_idx # 0
                                THEN Paragraphs(SubSeq(lines, intro_idx, Len(lines)))
                                ELSE <<>>]

(* lines 128-161: the anchors and the fields read from the raw lines *)
Scan(lines) ==
    LET raw_norm == [i \in 1..Len(lines) |-> normalize_gr(lines[i])]
        idx_num == find_index(raw_norm, NumberLines(raw_norm))
        intro_idx == find_index(raw_norm, TrialLines(raw_norm))
        idxP == SkipBlank(lines, idx_num + 1)
        idxS == SkipBlank(lines, idxP + 1)
        hd_start == idxS + 1
        hdr_slice == IF intro_idx # 0
                     THEN SubSeq(lines, hd_start, intro_idx - 1)
                     ELSE SubSeq(lines, hd_start, SkipText(lines, hd_start) - 1)
    IN  [idx_num |-> idx_num,
         intro_idx |-> intro_idx,
         docNumber |-> IF idx_num # 0 THEN Tail(strip(lines[idx_num])) ELSE <<>>,
         docProponent |-> IF idx_num # 0 /\ idxP <= Len(lines) THEN strip(lines[idxP]) ELSE <<>>,
         subDepartment |-> IF idx_num # 0 /\ idxS <= Len(lines) THEN strip(lines[idxS]) ELSE <<>>,
         headerDetails |-> IF idx_num # 0 THEN JoinLines(hdr_slice) ELSE <<>>,
         introduction_block |-> IF intro_idx # 0
                                THEN Paragraphs(SubSeq(lines, intro_idx, Len(lines)))
                                ELSE <<>>]

can_override_header(f) == f.idx_num # 0
can_override_intro(f) == f.intro_idx # 0

(* a <p> child; inner is the tag of the element that wraps its text, if any *)
Par(inner, txt) == [tag |-> "p", inner |-> inner, text |-> txt]

(* the header and introduction nodes as the grammar-driven parse left them *)
SkelHdr == [children |-> <<Par("", <<"parsed", "header">>)>>, marked |-> FALSE]
SkelIntro == [children |-> <<Par("", <<"parsed", "introduction">>)>>, marked |-> FALSE]

(* lines 217-225 without the test of can_override_header *)
HeaderRewriteAlways(node, f) ==
    [node EXCEPT !.children =
        <<Par("docNumber", f.docNumber), Par("docProponent", f.docProponent),
          Par("", f.subDepartment)>>
        \o (IF f.headerDetails # <<>> THEN <<Par("", f.headerDetails)>> ELSE <<>>)]

(* lines 217-225: the children of the header node after the override *)
HeaderRewrite(node, f) ==
    IF can_override_header(f)
    THEN [node EXCEPT !.children =
            <<Par("docNumber", f.docNumber), Par("docProponent", f.docProponent),
              Par("", f.subDepartment)>>
            \o (IF f.headerDetails # <<>> THEN <<Par("", f.headerDetails)>> ELSE <<>>)]
    ELSE node

(* lines 229-235 applied only when the header anchor was found as well *)
IntroRewriteNeedsHeader(node, f) ==
    IF can_override_intro(f) /\ can_override_header(f)
    THEN [node EXCEPT !.children =
            [i \in 1..Len(f.introduction_block) |-> Par("", f.introduction_block[i])]]
    ELSE node

(* lines 229-235: the children of the introduction node after the override *)
IntroRewrite(node, f) ==
    IF can_override_intro(f)
    THEN [node EXCEPT !.children =
            [i \in 1..Len(f.introduction_block) |-> Par("", f.introduction_block[i])]]
    ELSE node

WarnHdr == [level |-> "warning", msg |-> "Header override skipped"]
WarnIntro == [level |-> "warning", msg |-> "Introduction override skipped"]
ErrFailed == [level |-> "error", msg |-> "Failed"]

InitOverride ==
    /\ script = "STE"
    /\ BatchIdle
    /\ DatesIdle
    /\ SegIdle
    /\ IsoIdle
    /\ LateIdle
    /\ raw \in RawTexts
    /\ opc = "scan"
    /\ fields = NoFields
    /\ hdrNode = NoNode
    /\ introNode = NoNode
    /\ olog = {}
    /\ ostatus = "none"

(* lines 128-161 *)
ScanAnchors ==
    /\ opc = "scan"
    /\ fields' = Scan(raw)
    /\ opc' = "build"
    /\ UNCHANGED <<raw, hdrNode, introNode, olog, ostatus>>
    /\ UNCHANGED <<batchVars, dateVars, segVars, isoVars, lateVars>>

(* lines 163-213: the two parser passes and the tree *)
BuildTree ==
    /\ opc = "build"
    /\ hdrNode' = SkelHdr
    /\ introNode' = SkelIntro
    /\ opc' = "header"
    /\ UNCHANGED <<raw, fields, olog, ostatus>>
    /\ UNCHANGED <<batchVars, dateVars, segVars, isoVars, lateVars>>

(* lines 216-227 *)
OverrideHeader ==
    /\ opc = "header"
    /\ hdrNode' = HeaderRewrite(hdrNode, fields)
    /\ olog' = IF can_override_header(fields) THEN olog ELSE olog \cup {WarnHdr}
    /\ opc' = "intro"
    /\ UNCHANGED <<raw, fields, introNode, ostatus>>
    /\ UNCHANGED <<batchVars, dateVars, segVars, isoVars, lateVars>>

(* lines 229-237 *)
OverrideIntro ==
    /\ opc = "intro"
    /\ introNode' = IntroRewrite(introNode, fields)
    /\ olog' = IF can_override_intro(fields) THEN olog ELSE olog \cup {WarnIntro}
    /\ opc' = "dates"
    /\ UNCHANGED <<raw, fields, hdrNode, ostatus>>
    /\ UNCHANGED <<batchVars, dateVars, segVars, isoVars, lateVars>>

(* lines 246-248: add_date on the header node; when the hearing pattern    *)
(* finds a date the resolver marks it up inside the node                   *)
HearingDate(found) ==
    /\ opc = "dates"
    /\ hdrNode' = [hdrNode EXCEPT !.marked = found]
    /\ opc' = "write"
    /\ UNCHANGED <<raw, fields, introNode, olog, ostatus>>
    /\ UNCHANGED <<batchVars, dateVars, segVars, isoVars, lateVars>>

(* lines 256-265 *)
WriteOut ==
    /\ opc = "write"
    /\ ostatus' = "ok"
    /\ opc' = "end"
    /\ UNCHANGED <<raw, fields, hdrNode, introNode, olog>>
    /\ UNCHANGED <<batchVars, dateVars, segVars, isoVars, lateVars>>

(* lines 269-273: an exception of the parser passes or of the write *)
OverrideRaise ==
    /\ opc \in {"build", "write"}
    /\ ostatus' = "error"
    /\ olog' = olog \cup {ErrFailed}
    /\ opc' = "end"
    /\ UNCHANGED <<raw, fields, hdrNode, introNode>>
    /\ UNCHANGED <<batchVars, dateVars, segVars, isoVars, lateVars>>

NextOverride ==
    \/ ScanAnchors
    \/ BuildTree
    \/ OverrideHeader
    \/ OverrideIntro
    \/ \E found \in BOOLEAN : HearingDate(found)
    \/ WriteOut
    \/ OverrideRaise

SpecOverride == InitOverride /\ [][NextOverride]_vars

----------------------------------------------------------------------------
(* Claims about the override, checked under SpecOverride *)

NumIdx(lines) ==
    LET hits == {i \in 1..Len(lines) : IsNumberLine(normalize_gr(lines[i]))} IN
    IF hits = {} THEN 0 ELSE CHOOSE i \in hits : \A j \in hits : i <= j
TrialIdx(lines) ==
    LET hits == {i \in 1..Len(lines) : IsTrialLine(normalize_gr(lines[i]))} IN
    IF hits = {} THEN 0 ELSE CHOOSE i \in hits : \A j \in hits : i <= j

(* index of the first non-blank line after line i, 0 when there is none *)
NonBlankAfter(lines, i) ==
    IF i = 0 THEN 0
    ELSE LET c == {j \in (i + 1)..Len(lines) : lines[j].words # <<>>} IN
         IF c = {} THEN 0 ELSE CHOOSE j \in c : \A k \in c : j <= k

(* the anchor lines of a text: the document-number line, the first         *)
(* non-blank line after it, the next non-blank line, the trial-formula     *)
(* line; 0 for a line that is not there                                    *)
Anchors(lines) ==
    LET n == NumIdx(lines)
        p == NonBlankAfter(lines, n)
    IN  [num |-> n, prop |-> p, dept |-> NonBlankAfter(lines, p),
         trial |-> TrialIdx(lines)]

HeaderOf(lines) == HeaderRewrite(SkelHdr, Scan(lines))
IntroOf(lines) == IntroRewrite(SkelIntro, Scan(lines))

TreeBuilt == hdrNode # NoNode
OverridesDone == opc \in {"dates", "write"} \/ (opc = "end" /\ TreeBuilt)

(* the two states the claims about the overrides' results look at: the one *)
(* right after both overrides, and the end of a task that succeeded        *)
OverridesSettled == opc = "dates" \/ (opc = "end" /\ ostatus = "ok")

Unmarked(node) == [node EXCEPT !.marked = FALSE]

(* what holds of the two overrides, a being the anchors of the raw text:   *)
(* each applies exactly when its own anchor is present, with its own       *)
(* warning otherwise; the two rewrites commute; a node keeps all of the    *)
(* parse's children or none of them; the introduction depends only on the  *)
(* lines from the trial-formula anchor on                                  *)
OverridesIndependentCore(a) ==
    /\ (hdrNode.children # SkelHdr.children) <=> (a.num # 0)
    /\ (WarnHdr \in olog) <=> (a.num = 0)
    /\ (introNode.children # SkelIntro.children) <=> (a.trial # 0)
    /\ (WarnIntro \in olog) <=> (a.trial = 0)
    /\ LET t == [hdr |-> SkelHdr, intro |-> SkelIntro]
           hdrFirst == [hdr |-> HeaderRewrite(t.hdr, fields),
                        intro |-> IntroRewrite(t.intro, fields)]
           introFirst == [intro |-> IntroRewrite(t.intro, fields),
                          hdr |-> HeaderRewrite(t.hdr, fields)]
       IN  /\ hdrFirst = introFirst
           /\ [hdr |-> Unmarked(hdrNode), intro |-> introNode] = hdrFirst
    /\ \/ hdrNode.children = SkelHdr.children
       \/ \A i \in 1..Len(hdrNode.children) :
              \A j \in 1..Len(SkelHdr.children) :
                  hdrNode.children[i] # SkelHdr.children[j]
    /\ \/ introNode.children = SkelIntro.children
       \/ \A i \in 1..Len(introNode.children) :
              \A j \in 1..Len(SkelIntro.children) :
                  introNode.children[i] # SkelIntro.children[j]
    /\ a.trial # 0 => introNode = IntroOf(SubSeq(raw, a.trial, Len(raw)))

(* the raw lines cut off just before the trial-formula anchor line *)
BeforeTrial(lines, a) == SubSeq(lines, 1, a.trial - 1)

TrialAfterDept(a) == a.dept # 0 /\ a.trial > a.dept

DetailsUpToTrial(lines, a) ==
    IF a.dept = 0 THEN <<>>
    ELSE IF a.trial # 0 THEN JoinLines(SubSeq(lines, a.dept + 1, a.trial - 1))
    ELSE JoinLines(SubSeq(lines, a.dept + 1, Len(lines)))

(* the same, but without a trial-formula anchor only up to the first blank *)
(* line                                                                    *)
DetailsUpToTrialOrBlank(lines, a) ==
    LET blanks == {j \in (a.dept + 1)..Len(lines) : lines[j].words = <<>>}
        stop == IF blanks = {} THEN Len(lines) + 1
                ELSE CHOOSE j \in blanks : \A k \in blanks : j <= k
    IN  IF a.dept = 0 THEN <<>>
        ELSE IF a.trial # 0 THEN JoinLines(SubSeq(lines, a.dept + 1, a.trial - 1))
        ELSE JoinLines(SubSeq(lines, a.dept + 1, stop - 1))

WordsAt(lines, i) == IF i = 0 THEN <<>> ELSE lines[i].words

ScannedFieldsBut(a, details) ==
    /\ a.num # 0
          => /\ fields.docNumber = Tail(raw[a.num].words)
             /\ fields.docProponent = WordsAt(raw, a.prop)
             /\ fields.subDepartment = WordsAt(raw, a.dept)
             /\ fields.headerDetails = details
    /\ a.trial # 0
          => /\ Len(introNode.children) >= 1
             /\ introNode.children[1].text = raw[a.trial].words

HeaderLines(lines, a) ==
    ({a.num, a.prop, a.dept} \ {0})
        \cup (IF a.dept = 0 THEN {}
              ELSE {i \in (a.dept + 1)..(a.trial - 1) : lines[i].words # <<>>})
IntroLines(lines, a) == a.trial..Len(lines)

(* C29: with both anchor lines present, docProponent, subDepartment and    *)
(* headerDetails are read from lines before the trial-formula anchor line,  *)
(* so the overridden header and the overridden introduction share no raw   *)
(* line.                                                                    *)
C29_HeaderStopsBeforeTrial ==
    OverridesSettled =>
        LET a == Anchors(raw) IN
        (a.num # 0 /\ a.trial # 0) =>
            /\ fields.docProponent = WordsAt(raw, a.prop)
            /\ fields.subDepartment = WordsAt(raw, a.dept)
            /\ a.prop # 0 => a.prop < a.trial
            /\ a.dept # 0 => a.dept < a.trial
            /\ HeaderLines(raw, a) \cap IntroLines(raw, a) = {}

----------------------------------------------------------------------------
(* text_to_json.py: segment_text and extract_outcome.                      *)
(* A text is a sequence of symbols: "x" a letter, " " a blank and "nl" a   *)
(* line break,                                                             *)
(* "." a full stop, and one symbol for each occurrence of a marker phrase  *)
(* or of a verdict verb.  Offsets are 0-based as in the source, -1 is      *)
(* "not found".                                                            *)
(*   "M1" a motivation phrase written with single spaces (both motivation  *)
(*        patterns match it), "M2" the phrase broken over two lines (only  *)
(*        the second pattern matches it);                                  *)
(*   "D1" the decision word written without spaces (patterns 1 and 4),     *)
(*        "D5" the capital phrase of pattern 5;                            *)
(*   "C1", "C2" the phrases of the two conclusions patterns.               *)

MaxLen == 4
MaxBody == 4

MOTIVATION_MARKERS == <<{"M1"}, {"M1", "M2"}>>
DECISION_MARKERS == <<{"D1"}, {}, {}, {"D1"}, {"D5"}>>
CONCLUSIONS_MARKERS == <<{"C1"}, {"C2"}>>
OUTCOME_VERBS == <<"Aporriptei", "Anairei", "Dechetai", "Parapempei",
                   "Kiryssei", "Katadikazei", "Epivallei", "Diatassei">>

Whitespace == {" ", "nl"}
SegSymbols == {"x", " ", "M1", "M2", "D1", "D5", "C1", "C2"}
BodySymbols == {"x", " ", "nl", ".", "Aporriptei", "Dechetai"}
SegTexts == UNION {[1..n -> SegSymbols] : n \in 0..MaxLen}
BodyTexts == UNION {[1..n -> BodySymbols] : n \in 0..MaxBody}
Texts == SegTexts \cup {<<"D1", "nl">> \o b : b \in BodyTexts}

Min(S) == CHOOSE m \in S : \A k \in S : m <= k

(* Python's t[a:b] for 0 <= a, 0 <= b <= len(t) *)
Slice(t, a, b) == SubSeq(t, a + 1, b)

(* str.strip() that leaves trailing whitespace in place *)
StripLeadingOnly(t) ==
    LET keep == {i \in 1..Len(t) : t[i] \notin Whitespace} IN
    IF keep = {} THEN <<>> ELSE SubSeq(t, Min(keep), Len(t))

(* str.strip() *)
Strip(t) ==
    LET keep == {i \in 1..Len(t) : t[i] \notin Whitespace} IN
    IF keep = {} THEN <<>>
    ELSE SubSeq(t, Min(keep), CHOOSE j \in keep : \A k \in keep : k <= j)

(* p.search(text).start() for one pattern, -1 when it does not match *)
SearchStart(t, p) ==
    LET at == {i \in 1..Len(t) : t[i] \in p} IN
    IF at = {} THEN -1 ELSE Min(at) - 1

(* find_first: the patterns are tried in list order and the first one that *)
(* matches anywhere decides                                                *)
RECURSIVE find_first(_, _)
find_first(t, patterns) ==
    IF patterns = <<>> THEN -1
    ELSE IF SearchStart(t, Head(patterns)) # -1
    THEN SearchStart(t, Head(patterns))
    ELSE find_first(t, Tail(patterns))

(* the three offsets of segment_text, a marker not found set to len(text) *)
Offsets(t) ==
    LET n == Len(t)
        orEnd(i) == IF i = -1 THEN n ELSE i
    IN  [i_mot |-> orEnd(find_first(t, MOTIVATION_MARKERS)),
         i_dec |-> orEnd(find_first(t, DECISION_MARKERS)),
         i_conc |-> orEnd(find_first(t, CONCLUSIONS_MARKERS))]

(* segment_text with the introduction running up to the motivation marker  *)
(* and the motivation up to the decision marker, whatever their order      *)
segment_textBySuccessor(t) ==
    LET n == Len(t)
        o == Offsets(t)
    IN  [introduction |-> Strip(Slice(t, 0, o.i_mot)),
         motivation |-> IF o.i_mot < n THEN Strip(Slice(t, o.i_mot, o.i_dec)) ELSE <<>>,
         decision_text |-> IF o.i_dec < n
                           THEN Strip(Slice(t, o.i_dec, Min({o.i_conc, n}))) ELSE <<>>,
         conclusions |-> IF o.i_conc < n THEN Strip(Slice(t, o.i_conc, n)) ELSE <<>>]

(* the spans with the introduction running up to the motivation marker and *)
(* the motivation up to the decision marker, whatever their order          *)
SpanBoundsBySuccessor(t) ==
    LET n == Len(t)
        o == Offsets(t)
    IN  [introduction |-> <<0, o.i_mot>>,
         motivation |-> IF o.i_mot < n THEN <<o.i_mot, o.i_dec>> ELSE <<n, n>>,
         decision_text |-> IF o.i_dec < n THEN <<o.i_dec, Min({o.i_conc, n})>> ELSE <<n, n>>,
         conclusions |-> IF o.i_conc < n THEN <<o.i_conc, n>> ELSE <<n, n>>]

(* lines 168-177: start and end of the slice each segment is cut from; a   *)
(* segment set to "" without slicing is the empty slice at the end         *)
SpanBounds(t) ==
    LET n == Len(t)
        o == Offsets(t)
    IN  [introduction |-> <<0, Min({o.i_mot, o.i_dec, o.i_conc})>>,
         motivation |-> IF o.i_mot < n
                        THEN <<o.i_mot, Min({o.i_dec, o.i_conc, n})>> ELSE <<n, n>>,
         decision_text |-> IF o.i_dec < n THEN <<o.i_dec, Min({o.i_conc, n})>> ELSE <<n, n>>,
         conclusions |-> IF o.i_conc < n THEN <<o.i_conc, n>> ELSE <<n, n>>]

segment_text(t) ==
    LET b == SpanBounds(t)
    IN  [introduction |-> Strip(Slice(t, b.introduction[1], b.introduction[2])),
         motivation |-> Strip(Slice(t, b.motivation[1], b.motivation[2])),
         decision_text |-> Strip(Slice(t, b.decision_text[1], b.decision_text[2])),
         conclusions |-> Strip(Slice(t, b.conclusions[1], b.conclusions[2]))]

(* re.search(rf"{verb}[^.\n]*[.\n]", t): the 1-based first and last index  *)
(* of the match, <<0, 0>> when there is none                               *)
VerbMatch(t, verb) ==
    LET starts == {i \in 1..Len(t) :
                      t[i] = verb /\ \E j \in (i + 1)..Len(t) : t[j] \in {".", "nl"}}
    IN  IF starts = {} THEN <<0, 0>>
        ELSE LET i == Min(starts)
             IN  <<i, Min({j \in (i + 1)..Len(t) : t[j] \in {".", "nl"}})>>

(* the first line of t.splitlines() that is not blank, stripped *)
RECURSIVE FirstNonBlankLine(_)
FirstNonBlankLine(t) ==
    IF t = <<>> THEN None
    ELSE LET nls == {i \in 1..Len(t) : t[i] = "nl"}
             stop == IF nls = {} THEN Len(t) + 1 ELSE Min(nls)
             line == Strip(SubSeq(t, 1, stop - 1))
         IN  IF line # <<>> THEN line
             ELSE FirstNonBlankLine(SubSeq(t, stop + 1, Len(t)))

RECURSIVE FirstVerbSentence(_, _)
FirstVerbSentence(t, verbs) ==
    IF verbs = <<>> THEN None
    ELSE LET m == VerbMatch(t, Head(verbs))
         IN  IF m # <<0, 0>> THEN Strip(SubSeq(t, m[1], m[2]))
             ELSE FirstVerbSentence(t, Tail(verbs))

extract_outcome(decision_text) ==
    IF decision_text = <<>> THEN None
    ELSE IF FirstVerbSentence(decision_text, OUTCOME_VERBS) # None
    THEN FirstVerbSentence(decision_text, OUTCOME_VERBS)
    ELSE FirstNonBlankLine(decision_text)

InitSegment ==
    /\ script = "STE"
    /\ BatchIdle
    /\ DatesIdle
    /\ OverrideIdle
    /\ IsoIdle
    /\ LateIdle
    /\ text \in Texts
    /\ spc = "segment"
    /\ offs = NoOffsets
    /\ seg = NoSeg
    /\ outcome = None

(* build_intermediate, line 224: seg = segment_text(text) *)
Segment ==
    /\ spc = "segment"
    /\ offs' = Offsets(text)
    /\ seg' = segment_text(text)
    /\ spc' = "outcome"
    /\ UNCHANGED <<text, outcome>>
    /\ UNCHANGED <<batchVars, dateVars, overrideVars, isoVars, lateVars>>

(* build_intermediate, line 225: outcome = extract_outcome(seg["decision_text"]) *)
Outcome ==
    /\ spc = "outcome"
    /\ outcome' = extract_outcome(seg.decision_text)
    /\ spc' = "done"
    /\ UNCHANGED <<text, offs, seg>>
    /\ UNCHANGED <<batchVars, dateVars, overrideVars, isoVars, lateVars>>

NextSegment ==
    \/ Segment
    \/ Outcome

SpecSegment == InitSegment /\ [][NextSegment]_vars

----------------------------------------------------------------------------
(* Claims about segmentation, checked under SpecSegment *)

Segmented == spc # "segment"

(* C16 as stated: introduction runs from the start of the text to the      *)
(* motivation offset, motivation from there to the decision offset,        *)
(* decision from there to the conclusions offset, conclusions from there   *)
(* to the end (each span trimmed); a marker not found counts as the end.   *)
C16_SpansBySuccessorOffsets ==
    Segmented =>
        /\ seg.introduction = Strip(Slice(text, 0, offs.i_mot))
        /\ seg.motivation = Strip(Slice(text, offs.i_mot, offs.i_dec))
        /\ seg.decision_text = Strip(Slice(text, offs.i_dec, offs.i_conc))
        /\ seg.conclusions = Strip(Slice(text, offs.i_conc, Len(text)))

(* C16 amended: introduction runs from the start of the text to the        *)
(* smallest of the three offsets and motivation from the motivation offset *)
(* to the smaller of the decision and conclusions offsets; decision and    *)
(* conclusions as stated; a span whose end is not after its start is empty *)
C16_SpansByNearestOffset ==
    Segmented =>
        /\ seg.introduction
              = Strip(Slice(text, 0, Min({offs.i_mot, offs.i_dec, offs.i_conc})))
        /\ seg.motivation
              = Strip(Slice(text, offs.i_mot, Min({offs.i_dec, offs.i_conc})))
        /\ seg.decision_text = Strip(Slice(text, offs.i_dec, offs.i_conc))
        /\ seg.conclusions = Strip(Slice(text, offs.i_conc, Len(text)))

C16_Witness ==
    /\ spc = "done"
    /\ offs.i_dec < offs.i_mot
    /\ offs.i_mot < Len(text)
    /\ seg.introduction # <<>>
    /\ seg.motivation = <<>>
    /\ Len(seg.decision_text) >= 2

MarkerSymbols ==
    UNION ({MOTIVATION_MARKERS[i] : i \in 1..Len(MOTIVATION_MARKERS)}
           \cup {DECISION_MARKERS[i] : i \in 1..Len(DECISION_MARKERS)}
           \cup {CONCLUSIONS_MARKERS[i] : i \in 1..Len(CONCLUSIONS_MARKERS)})

NoMarkers(t) == \A i \in 1..Len(t) : t[i] \notin MarkerSymbols

(* s is t without the whitespace at its two ends *)
IsTrimOf(s, t) ==
    \E i \in 0..Len(t) : \E j \in i..Len(t) :
        /\ s = SubSeq(t, i + 1, j)
        /\ \A k \in 1..i : t[k] \in Whitespace
        /\ \A k \in (j + 1)..Len(t) : t[k] \in Whitespace
        /\ s # <<>> => s[1] \notin Whitespace /\ s[Len(s)] \notin Whitespace

(* C17 as stated: for a text with none of the three marker classes the     *)
(* introduction is the entire text and the other three spans are empty.    *)
C17_NoMarkersIntroIsWholeText ==
    Segmented /\ NoMarkers(text) =>
        /\ seg.introduction = text
        /\ seg.motivation = <<>>
        /\ seg.decision_text = <<>>
        /\ seg.conclusions = <<>>

(* C17 amended: for a text with none of the three marker classes the       *)
(* introduction is the entire text without its leading and trailing        *)
(* whitespace and the other three spans are empty.                         *)
C17_NoMarkersIntroIsTrimmedText ==
    Segmented /\ NoMarkers(text) =>
        /\ IsTrimOf(seg.introduction, text)
        /\ seg.motivation = <<>>
        /\ seg.decision_text = <<>>
        /\ seg.conclusions = <<>>

C17_Witness ==
    /\ spc = "done"
    /\ NoMarkers(text)
    /\ Len(text) >= 3
    /\ text[1] = " "
    /\ text[Len(text)] = " "
    /\ Len(seg.introduction) = Len(text) - 2

(* the smallest 0-based position at which any pattern of the class         *)
(* matches, the length of the text when none matches                       *)
EarliestAny(t, patterns) ==
    LET at == {i \in 1..Len(t) : \E p \in 1..Len(patterns) : t[i] \in patterns[p]} IN
    IF at = {} THEN Len(t) ELSE Min(at) - 1

(* C18: the offset used for each marker class is the smallest position at  *)
(* which any pattern of the class matches, and end-of-text only when no    *)
(* pattern of the class matches anywhere.                                  *)
C18_OffsetIsEarliestMatch ==
    Segmented =>
        /\ offs.i_mot = EarliestAny(text, MOTIVATION_MARKERS)
        /\ offs.i_dec = EarliestAny(text, DECISION_MARKERS)
        /\ offs.i_conc = EarliestAny(text, CONCLUSIONS_MARKERS)

(* the positions of the text a slice t[a:b] holds *)
Positions(b) == (b[1] + 1)..b[2]

SegOrder == <<"introduction", "motivation", "decision_text", "conclusions">>

(* C30: whatever the marker offsets, out of order or coinciding, the four  *)
(* spans segment_text cuts (before trimming) do not overlap, together hold *)
(* every character of the text exactly once, and lie in the order          *)
(* introduction, motivation, decision, conclusions.                        *)
C30_SpansPartitionText ==
    Segmented =>
        LET b == SpanBounds(text) IN
        /\ \A f \in DOMAIN seg : seg[f] = Strip(Slice(text, b[f][1], b[f][2]))
        /\ UNION {Positions(b[f]) : f \in DOMAIN b} = 1..Len(text)
        /\ \A i, j \in 1..4 :
              i < j => \A p \in Positions(b[SegOrder[i]]), q \in Positions(b[SegOrder[j]]) : p < q

(* the three markers in reverse order after a first character: motivation  *)
(* and decision are cut empty, the conclusions span runs to the end        *)
C30_Witness ==
    /\ spc = "done"
    /\ Len(text) = 4
    /\ 0 < offs.i_conc
    /\ offs.i_conc < offs.i_dec
    /\ offs.i_dec < offs.i_mot
    /\ offs.i_mot < Len(text)
    /\ Len(seg.conclusions) = 3

VerbSet == {OUTCOME_VERBS[i] : i \in 1..Len(OUTCOME_VERBS)}

(* the positions of the decision span at which a verdict verb starts a     *)
(* sentence that is closed by a full stop or a line break                  *)
VerbSentenceStarts(t) ==
    {i \in 1..Len(t) : t[i] \in VerbSet /\ \E j \in (i + 1)..Len(t) : t[j] \in {".", "nl"}}

SentenceFrom(t, i) ==
    Strip(SubSeq(t, i, Min({j \in (i + 1)..Len(t) : t[j] \in {".", "nl"}})))

(* C19: the outcome is the verdict-verb sentence that comes earliest in    *)
(* the decision span; without one it is the first non-blank line of the    *)
(* span; it is None when the span is empty.                                *)
C19_OutcomeIsEarliestVerbSentence ==
    spc = "done" =>
        IF seg.decision_text = <<>> THEN outcome = None
        ELSE IF VerbSentenceStarts(seg.decision_text) # {}
        THEN outcome = SentenceFrom(seg.decision_text,
                                    Min(VerbSentenceStarts(seg.decision_text)))
        ELSE outcome = FirstNonBlankLine(seg.decision_text)

----------------------------------------------------------------------------
(* text_to_json.py: to_iso_date.                                           *)
(* A token is a sequence of code points.  A letter is written by its Latin *)
(* stand-in (a b g d e z h q i k l m n x o p r s t u f c y w for alpha to  *)
(* omega), its accent ("'" tonos, ":" dialytika, ":'" both) and its case;  *)
(* the combining tonos and dialytika are code points of their own.         *)

MaxDay == 2

Ch(b, acc, up) == [b |-> b, acc |-> acc, up |-> up]
Lo(b) == Ch(b, "", FALSE)
Ac(b) == Ch(b, "'", FALSE)
Di(b) == Ch(b, ":", FALSE)
DiAc(b) == Ch(b, ":'", FALSE)
CombAcute == Ch("", "'", FALSE)
CombDiaer == Ch("", ":", FALSE)
FullStop == Ch(".", "", FALSE)

Letters == {"a", "b", "g", "d", "e", "z", "h", "q", "i", "k", "l", "m",
            "n", "x", "o", "p", "r", "s", "t", "u", "f", "c", "y", "w"}
Vowels == {"a", "e", "h", "i", "o", "u", "w"}

MONTHS ==
    { <<<<Lo("i"), Lo("a"), Lo("n"), Lo("o"), Lo("u"), Lo("a"), Lo("r"), Ac("i"), Lo("o"), Lo("u")>>, <<"0", "1">>>>,
      <<<<Lo("i"), Lo("o"), Lo("u"), Lo("a"), Lo("n"), Lo("o"), Lo("u"), Lo("a"), Lo("r"), Lo("i"), Lo("o"), Lo("u")>>, <<"0", "1">>>>,
      <<<<Lo("i"), Lo("a"), Lo("n"), Lo("o"), Lo("u"), Lo("a"), Lo("r"), Lo("i"), Lo("o"), Lo("u")>>, <<"0", "1">>>>,
      <<<<Lo("f"), Lo("e"), Lo("b"), Lo("r"), Lo("o"), Lo("u"), Lo("a"), Lo("r"), Ac("i"), Lo("o"), Lo("u")>>, <<"0", "2">>>>,
      <<<<Lo("f"), Lo("e"), Lo("b"), Lo("r"), Lo("o"), Lo("u"), Lo("a"), Lo("r"), Lo("i"), Lo("o"), Lo("u")>>, <<"0", "2">>>>,
      <<<<Lo("m"), Lo("a"), Lo("r"), Lo("t"), Ac("i"), Lo("o"), Lo("u")>>, <<"0", "3">>>>,
      <<<<Lo("m"), Lo("a"), Lo("r"), Lo("t"), Lo("i"), Lo("o"), Lo("u")>>, <<"0", "3">>>>,
      <<<<Lo("a"), Lo("p"), Lo("r"), Lo("i"), Lo("l"), Ac("i"), Lo("o"), Lo("u")>>, <<"0", "4">>>>,
      <<<<Lo("a"), Lo("p"), Lo("r"), Lo("i"), Lo("l"), Lo("i"), Lo("o"), Lo("u")>>, <<"0", "4">>>>,
      <<<<Lo("m"), Lo("a"), DiAc("i"), Lo("o"), Lo("u")>>, <<"0", "5">>>>,
      <<<<Lo("m"), Lo("a"), Lo("i"), Lo("o"), Lo("u")>>, <<"0", "5">>>>,
      <<<<Lo("m"), Ac("a"), Di("i"), Lo("o"), Lo("u")>>, <<"0", "5">>>>,
      <<<<Lo("m"), Lo("a"), Di("i"), Lo("o"), Lo("u")>>, <<"0", "5">>>>,
      <<<<Lo("i"), Lo("o"), Lo("u"), Lo("n"), Ac("i"), Lo("o"), Lo("u")>>, <<"0", "6">>>>,
      <<<<Lo("i"), Lo("o"), Lo("u"), Lo("n"), Lo("i"), Lo("o"), Lo("u")>>, <<"0", "6">>>>,
      <<<<Lo("i"), Lo("o"), Lo("u"), Lo("l"), Ac("i"), Lo("o"), Lo("u")>>, <<"0", "7">>>>,
      <<<<Lo("i"), Lo("o"), Lo("u"), Lo("l"), Lo("i"), Lo("o"), Lo("u")>>, <<"0", "7">>>>,
      <<<<Lo("a"), Lo("u"), Lo("g"), Lo("o"), Ac("u"), Lo("s"), Lo("t"), Lo("o"), Lo("u")>>, <<"0", "8">>>>,
      <<<<Lo("a"), Lo("u"), Lo("g"), Lo("o"), Lo("u"), Lo("s"), Lo("t"), Lo("o"), Lo("u")>>, <<"0", "8">>>>,
      <<<<Lo("s"), Lo("e"), Lo("p"), Lo("t"), Lo("e"), Lo("m"), Lo("b"), Lo("r"), Ac("i"), Lo("o"), Lo("u")>>, <<"0", "9">>>>,
      <<<<Lo("s"), Lo("e"), Lo("p"), Lo("t"), Lo("e"), Lo("m"), Lo("b"), Lo("r"), Lo("i"), Lo("o"), Lo("u")>>, <<"0", "9">>>>,
      <<<<Lo("o"), Lo("k"), Lo("t"), Lo("w"), Lo("b"), Lo("r"), Ac("i"), Lo("o"), Lo("u")>>, <<"1", "0">>>>,
      <<<<Lo("o"), Lo("k"), Lo("t"), Lo("w"), Lo("b"), Lo("r"), Lo("i"), Lo("o"), Lo("u")>>, <<"1", "0">>>>,
      <<<<Lo("n"), Lo("o"), Lo("e"), Lo("m"), Lo("b"), Lo("r"), Ac("i"), Lo("o"), Lo("u")>>, <<"1", "1">>>>,
      <<<<Lo("n"), Lo("o"), Lo("e"), Lo("m"), Lo("b"), Lo("r"), Lo("i"), Lo("o"), Lo("u")>>, <<"1", "1">>>>,
      <<<<Lo("d"), Lo("e"), Lo("k"), Lo("e"), Lo("m"), Lo("b"), Lo("r"), Ac("i"), Lo("o"), Lo("u")>>, <<"1", "2">>>>,
      <<<<Lo("d"), Lo("e"), Lo("k"), Lo("e"), Lo("m"), Lo("b"), Lo("r"), Lo("i"), Lo("o"), Lo("u")>>, <<"1", "2">>>> }

MonthKeys == {e[1] : e \in MONTHS}

(* MONTHS.get(mkey) *)
MonthsGet(mkey) ==
    IF mkey \in MonthKeys THEN (CHOOSE e \in MONTHS : e[1] = mkey)[2] ELSE None

RECURSIVE Flatten(_)
Flatten(ss) == IF ss = <<>> THEN <<>> ELSE Head(ss) \o Flatten(Tail(ss))

(* str.upper() of one code point: the small iota or upsilon with dialytika *)
(* and tonos has no capital of its own and becomes capital + two marks     *)
UpperChar(c) ==
    IF c.b \notin Letters THEN <<c>>
    ELSE IF c.acc = ":'" THEN <<Ch(c.b, "", TRUE), CombDiaer, CombAcute>>
    ELSE <<[c EXCEPT !.up = TRUE]>>

Upper(tok) == Flatten([i \in 1..Len(tok) |-> UpperChar(tok[i])])

(* unicodedata.normalize("NFC", s): a letter takes up a following mark     *)
(* when the composed letter exists                                         *)
Composable(c, m) ==
    /\ c.b \in Letters
    /\ \/ m = CombDiaer /\ c.acc = "" /\ c.b \in {"i", "u"}
       \/ m = CombAcute /\ c.acc = "" /\ c.b \in Vowels
       \/ m = CombAcute /\ c.acc = ":" /\ ~c.up /\ c.b \in {"i", "u"}

Compose(c, m) == [c EXCEPT !.acc = c.acc \o m.acc]

RECURSIVE nfc(_)
nfc(s) ==
    IF Len(s) < 2 THEN s
    ELSE IF Composable(s[1], s[2])
    THEN nfc(<<Compose(s[1], s[2])>> \o SubSeq(s, 3, Len(s)))
    ELSE <<s[1]>> \o nfc(Tail(s))

(* str.lower() *)
lower(s) == [i \in 1..Len(s) |-> IF s[i].b \in Letters THEN [s[i] EXCEPT !.up = FALSE] ELSE s[i]]

(* re.sub(r"[^\w...]", "", mkey): only letters stay *)
WordChars(s) == SelectSeq(s, LAMBDA c : c.b \in Letters)

DigitChars == <<"0", "1", "2", "3", "4", "5", "6", "7", "8", "9">>
IsDigit(c) == \E i \in 1..10 : DigitChars[i] = c
DigitVal(c) == (CHOOSE i \in 1..10 : DigitChars[i] = c) - 1

(* int(s) for a string of digits *)
RECURSIVE IntOf(_)
IntOf(ds) ==
    IF ds = <<>> THEN 0 ELSE 10 * IntOf(SubSeq(ds, 1, Len(ds) - 1)) + DigitVal(ds[Len(ds)])

(* f"{n:0wd}" *)
RECURSIVE Pad(_, _)
Pad(n, w) ==
    IF w <= 1 /\ n < 10 THEN <<DigitChars[n + 1]>>
    ELSE Pad(n \div 10, w - 1) \o <<DigitChars[(n % 10) + 1]>>

(* to_iso_date without the .lower() of line 60 *)
to_iso_dateCaseSensitive(day, month_token, year) ==
    LET ds == SelectSeq(day, IsDigit)
        mkey == WordChars(nfc(month_token))
        m == MonthsGet(mkey)
    IN  IF ds = <<>> THEN None
        ELSE IF m = None THEN None
        ELSE Pad(IntOf(year), 4) \o <<"-">> \o m \o <<"-">> \o Pad(IntOf(ds), 2)

(* lines 57-67; int('') raises and the except clause returns None *)
to_iso_date(day, month_token, year) ==
    LET ds == SelectSeq(day, IsDigit)
        mkey == WordChars(lower(nfc(month_token)))
        m == MonthsGet(mkey)
    IN  IF ds = <<>> THEN None
        ELSE IF m = None THEN None
        ELSE Pad(IntOf(year), 4) \o <<"-">> \o m \o <<"-">> \o Pad(IntOf(ds), 2)

(* the ways a listed spelling is written in the input *)
Styles == {"lower", "upper", "capitalized", "swapped", "stop"}
Written(key, style) ==
    CASE style = "lower" -> key
      [] style = "upper" -> Upper(key)
      [] style = "capitalized" -> UpperChar(key[1]) \o Tail(key)
      [] style = "swapped" -> <<key[1]>> \o Upper(Tail(key))
      [] style = "stop" -> key \o <<FullStop>>

(* a month token that is not a listed spelling: tonos on the iota, no      *)
(* dialytika                                                               *)
Unlisted == <<Lo("m"), Lo("a"), Ac("i"), Lo("o"), Lo("u")>>

(* day tokens: the days 1..MaxDay, an ordinal, a token without digits, and  *)
(* the two-digit numbers 00, 29, 30, 31, 32                                *)
DayTokens ==
    {<<DigitChars[n + 1]>> : n \in 1..MaxDay}
        \cup {<<"1", "5", "h", "s">>, <<"h">>}
        \cup {<<"0", "0">>, <<"2", "9">>, <<"3", "0">>, <<"3", "1">>, <<"3", "2">>}
YearTokens == {<<"2", "0", "2", "4">>, <<"2", "0", "2", "3">>}

(* DATE_RE, lines 98-103: the month alternatives of group m, here in     *)
(* lower case; re.IGNORECASE compares code point by code point without   *)
(* regard to case                                                        *)
DateReMonths ==
    { <<Lo("i"), Lo("a"), Lo("n"), Lo("o"), Lo("u"), Lo("a"), Lo("r"), Ac("i"), Lo("o"), Lo("u")>>,
      <<Lo("f"), Lo("e"), Lo("b"), Lo("r"), Lo("o"), Lo("u"), Lo("a"), Lo("r"), Ac("i"), Lo("o"), Lo("u")>>,
      <<Lo("m"), Lo("a"), Lo("r"), Lo("t"), Ac("i"), Lo("o"), Lo("u")>>,
      <<Lo("a"), Lo("p"), Lo("r"), Lo("i"), Lo("l"), Ac("i"), Lo("o"), Lo("u")>>,
      <<Lo("m"), Lo("a"), DiAc("i"), Lo("o"), Lo("u")>>,
      <<Lo("m"), Lo("a"), Ac("i"), Lo("o"), Lo("u")>>,
      <<Lo("i"), Lo("o"), Lo("u"), Lo("n"), Ac("i"), Lo("o"), Lo("u")>>,
      <<Lo("i"), Lo("o"), Lo("u"), Lo("l"), Ac("i"), Lo("o"), Lo("u")>>,
      <<Lo("a"), Lo("u"), Lo("g"), Lo("o"), Ac("u"), Lo("s"), Lo("t"), Lo("o"), Lo("u")>>,
      <<Lo("s"), Lo("e"), Lo("p"), Lo("t"), Lo("e"), Lo("m"), Lo("b"), Lo("r"), Ac("i"), Lo("o"), Lo("u")>>,
      <<Lo("o"), Lo("k"), Lo("t"), Lo("w"), Lo("b"), Lo("r"), Ac("i"), Lo("o"), Lo("u")>>,
      <<Lo("n"), Lo("o"), Lo("e"), Lo("m"), Lo("b"), Lo("r"), Ac("i"), Lo("o"), Lo("u")>>,
      <<Lo("d"), Lo("e"), Lo("k"), Lo("e"), Lo("m"), Lo("b"), Lo("r"), Ac("i"), Lo("o"), Lo("u")>> }

(* group m of DATE_RE matches the whole token *)
MatchesMonth(tok) == lower(tok) \in DateReMonths

(* group d of DATE_RE: one or two digits and an optional ordinal ending *)
DaySuffixes == {<<>>, <<"h">>, <<"h", "s">>, <<"o", "s">>, <<"o", "u">>}
MatchesDay(day) ==
    \E n \in 1..2 :
        /\ n <= Len(day)
        /\ \A i \in 1..n : IsDigit(day[i])
        /\ SubSeq(day, n + 1, Len(day)) \in DaySuffixes

(* group y of DATE_RE: four digits *)
MatchesYear(year) == Len(year) = 4 /\ \A i \in 1..4 : IsDigit(year[i])

(* DATE_RE.search on a window that holds the one phrase "day month year" *)
DateReFinds(t) == MatchesDay(t.day) /\ MatchesMonth(t.month) /\ MatchesYear(t.year)

(* find_keyword_date, lines 112-124, on a text with at most one keyword   *)
(* followed by the phrase of t                                           *)
find_keyword_date(t) ==
    IF ~t.kw THEN None
    ELSE IF ~DateReFinds(t) THEN None
    ELSE to_iso_date(t.day, t.month, t.year)

InitIso ==
    /\ script = "STE"
    /\ BatchIdle
    /\ DatesIdle
    /\ OverrideIdle
    /\ SegIdle
    /\ LateIdle
    /\ \E day \in DayTokens, year \in YearTokens, kw \in BOOLEAN :
          \/ \E key \in MonthKeys, style \in Styles :
                dateTok = [day |-> day, month |-> Written(key, style), year |-> year,
                           spelling |-> key, kw |-> kw]
          \/ dateTok = [day |-> day, month |-> Unlisted, year |-> year, spelling |-> <<>>,
                        kw |-> kw]
    /\ ipc = "call"
    /\ iso = None

(* find_keyword_date, line 123: to_iso_date(d, m, y) *)
ToIso ==
    /\ ipc = "call"
    /\ iso' = to_iso_date(dateTok.day, dateTok.month, dateTok.year)
    /\ ipc' = "done"
    /\ UNCHANGED dateTok
    /\ UNCHANGED <<batchVars, dateVars, overrideVars, segVars, lateVars>>

(* find_keyword_date called by build_intermediate: "found" when a keyword *)
(* and a date after it were found, "nodate" when not                     *)
FindKeywordDate ==
    /\ ipc = "call"
    /\ iso' = find_keyword_date(dateTok)
    /\ ipc' = IF dateTok.kw /\ DateReFinds(dateTok) THEN "found" ELSE "nodate"
    /\ UNCHANGED dateTok
    /\ UNCHANGED <<batchVars, dateVars, overrideVars, segVars, lateVars>>

NextIso == ToIso \/ FindKeywordDate

SpecIso == InitIso /\ [][NextIso]_vars

----------------------------------------------------------------------------
(* Claims about to_iso_date, checked under SpecIso *)

(* the twelve month names, in calendar order, letters only *)
MonthNames ==
    << <<"i", "a", "n", "o", "u", "a", "r", "i", "o", "u">>,
       <<"f", "e", "b", "r", "o", "u", "a", "r", "i", "o", "u">>,
       <<"m", "a", "r", "t", "i", "o", "u">>,
       <<"a", "p", "r", "i", "l", "i", "o", "u">>,
       <<"m", "a", "i", "o", "u">>,
       <<"i", "o", "u", "n", "i", "o", "u">>,
       <<"i", "o", "u", "l", "i", "o", "u">>,
       <<"a", "u", "g", "o", "u", "s", "t", "o", "u">>,
       <<"s", "e", "p", "t", "e", "m", "b", "r", "i", "o", "u">>,
       <<"o", "k", "t", "w", "b", "r", "i", "o", "u">>,
       <<"n", "o", "e", "m", "b", "r", "i", "o", "u">>,
       <<"d", "e", "k", "e", "m", "b", "r", "i", "o", "u">> >>

(* the listed alternate spelling of January with a letter more *)
AlternateJanuary == <<"i", "o", "u", "a", "n", "o", "u", "a", "r", "i", "o", "u">>

BaseLetters(s) == LET w == WordChars(s) IN [i \in 1..Len(w) |-> w[i].b]

(* the month, 1 to 12, a spelling names; 0 when it names none *)
MonthOf(s) ==
    LET b == BaseLetters(s) IN
    IF b = AlternateJanuary THEN 1
    ELSE IF \E i \in 1..12 : MonthNames[i] = b
    THEN CHOOSE i \in 1..12 : MonthNames[i] = b
    ELSE 0

TwoDigitCode(i) == <<DigitChars[(i \div 10) + 1], DigitChars[(i % 10) + 1]>>

(* C20: every listed spelling of a month, accented or not, in lower case,  *)
(* capitals or mixed case, is mapped to the two-digit code of that month;  *)
(* the spellings of one month share the code, different months differ and  *)
(* the codes of the table are exactly 01 to 12.                            *)
C20_MonthSpellingsToCode ==
    /\ \A e \in MONTHS : e[2] = TwoDigitCode(MonthOf(e[1]))
    /\ {MonthOf(e[1]) : e \in MONTHS} = 1..12
    /\ (ipc = "done" /\ dateTok.spelling # <<>> /\ \E i \in 1..Len(dateTok.day) : IsDigit(dateTok.day[i]))
          => /\ iso # None
             /\ SubSeq(iso, 6, 7) = TwoDigitCode(MonthOf(dateTok.spelling))

C20_Witness ==
    /\ ipc = "done"
    /\ dateTok.spelling = <<Lo("m"), Lo("a"), DiAc("i"), Lo("o"), Lo("u")>>
    /\ dateTok.month = <<Ch("m", "", TRUE), Ch("a", "", TRUE), Ch("i", "", TRUE),
                         CombDiaer, CombAcute, Ch("o", "", TRUE), Ch("u", "", TRUE)>>
    /\ iso = <<"2", "0", "2", "4", "-", "0", "5", "-", "0", "1">>

(* the calendar: the length of month m of year y *)
IsLeap(y) == (y % 4 = 0 /\ y % 100 # 0) \/ y % 400 = 0
DaysIn(m, y) ==
    IF m = 2 THEN (IF IsLeap(y) THEN 29 ELSE 28)
    ELSE IF m \in {4, 6, 9, 11} THEN 30
    ELSE 31

(* s is YYYY-MM-DD and names a day of the calendar *)
IsRealDay(s) ==
    /\ Len(s) = 10
    /\ s[5] = "-" /\ s[8] = "-"
    /\ \A i \in {1, 2, 3, 4, 6, 7, 9, 10} : IsDigit(s[i])
    /\ LET y == IntOf(SubSeq(s, 1, 4))
           m == IntOf(SubSeq(s, 6, 7))
           d == IntOf(SubSeq(s, 9, 10))
       IN  /\ m \in 1..12
           /\ d \in 1..DaysIn(m, y)

(* C21: every date string to_iso_date emits is YYYY-MM-DD and denotes a    *)
(* real day (month 01..12, day 01..length of that month); for tokens that  *)
(* do not denote one nothing is emitted.                                   *)
C21_EmittedDateIsRealDay ==
    ipc = "done" /\ iso # None => IsRealDay(iso)

(* C28: every month token that DATE_RE captures is a key of MONTHS, so   *)
(* when find_keyword_date finds a date after a keyword it returns an ISO  *)
(* date and not None.                                                    *)
C28_CapturedMonthResolved ==
    ipc = "found" => iso # None

----------------------------------------------------------------------------
(* text_to_json.py: main and build_intermediate (the heuristic mode).      *)
(* A text is a sequence of phrases; a file name is the sequence of its     *)
(* dot-separated components.                                               *)

MaxTxt == 2

NumPhrase == "Ariqmo's 12/2024"
NumUpper == "ARIQMO'S 7 / 2023"
NumPlain == "Ariqmos 12/2024"
CosPhrase == "TO SYMBOYLIO THS EPIKRATEIAS"
ApPhrase == "TO DIKASTHRIO TOY AREIOY PAGOY"
CosLower == "To Symboy'lio ths Epikratei'as"
Phrases == {NumPhrase, NumUpper, NumPlain, CosPhrase, ApPhrase, CosLower}
JsonTexts == {<<>>} \cup {<<p>> : p \in Phrases} \cup {<<p, q>> : p, q \in Phrases}

(* the TXT names of the folder, in the order sorted() gives them *)
TxtNames == << <<"a", "parse-error", "txt">>, <<"a", "txt">>, <<"b", "txt">> >>

(* the elements of a set of numbers, ascending *)
RECURSIVE Ascending(_)
Ascending(S) ==
    IF S = {} THEN <<>>
    ELSE LET m == CHOOSE x \in S : \A y \in S : x <= y IN <<m>> \o Ascending(S \ {m})

(* Path.with_suffix: the last component goes, the new suffix comes *)
with_suffix(name, suffix) == SubSeq(name, 1, Len(name) - 1) \o suffix

ReportPath == <<"_text2json_batch_report", "json">>

(* the first match of r"Ariqmo's\s+(\d{1,4}\s*/\s*\d{4})", ignoring case:  *)
(* group 1 without its spaces (a string value is a one-element sequence)   *)
NumberOf(phrase) ==
    CASE phrase = NumPhrase -> <<"12/2024">>
      [] phrase = NumUpper -> <<"7/2023">>
      [] OTHER -> <<>>

extract_doc_number(t) ==
    LET hits == {k \in 1..Len(t) : NumberOf(t[k]) # <<>>} IN
    IF hits = {} THEN None
    ELSE NumberOf(t[CHOOSE k \in hits : \A j \in hits : k <= j])

(* the two case-sensitive searches; the Council of State is tried first *)
extract_court_and_titles(t) ==
    IF \E k \in 1..Len(t) : t[k] = CosPhrase
    THEN [court |-> <<"COS">>, proponent |-> <<CosPhrase>>]
    ELSE IF \E k \in 1..Len(t) : t[k] = ApPhrase
    THEN [court |-> <<"AP">>, proponent |-> <<ApPhrase>>]
    ELSE [court |-> None, proponent |-> None]

MissingMessage(missing) == <<"Missing required fields">> \o missing

(* build_intermediate without the minimal-acceptance check of lines 227-234 *)
build_intermediateAcceptsAll(t) ==
    LET doc_number == extract_doc_number(t)
        c == extract_court_and_titles(t)
    IN  [data |-> [court |-> c.court, docNumber |-> doc_number,
                   docProponent |-> c.proponent],
         err |-> None]

(* lines 202-262: (json_dict or None, error_message or None); of the dict  *)
(* the court and the header fields read from the text are kept             *)
build_intermediate(t) ==
    LET doc_number == extract_doc_number(t)
        c == extract_court_and_titles(t)
        missing == (IF doc_number = None THEN <<"docNumber">> ELSE <<>>)
                       \o (IF c.court = None THEN <<"court">> ELSE <<>>)
    IN  IF missing # <<>>
        THEN [data |-> None, err |-> MissingMessage(missing)]
        ELSE [data |-> [court |-> c.court, docNumber |-> doc_number,
                        docProponent |-> c.proponent],
              err |-> None]

(* Path.write_text: the file at the path is replaced *)
WriteText(store, path, kind, of, content) ==
    {e \in store : e.path # path}
        \cup {[path |-> path, kind |-> kind, of |-> of, content |-> content]}

InitJson ==
    /\ script = "STE"
    /\ BatchIdle
    /\ DatesIdle
    /\ OverrideIdle
    /\ SegIdle
    /\ IsoIdle
    /\ TaskIdle
    /\ LegacyIdle
    /\ WorkerIdle
    /\ \E S \in SUBSET (1..Len(TxtNames)) :
          /\ Cardinality(S) <= MaxTxt
          /\ \E tx \in [S -> JsonTexts] :
                LET order == Ascending(S) IN
                txt_files = [k \in 1..Len(order) |->
                                [name |-> TxtNames[order[k]], text |-> tx[order[k]]]]
    /\ dry_run \in BOOLEAN
    /\ jpc = "start"
    /\ jidx = 0
    /\ summary = NoSummary
    /\ jout = {}

(* lines 282-289: no TXT file ends main with SystemExit *)
StartJson ==
    /\ jpc = "start"
    /\ IF txt_files = <<>>
       THEN jpc' = "exit" /\ jidx' = jidx
       ELSE jpc' = "loop" /\ jidx' = 1
    /\ UNCHANGED <<txt_files, dry_run, summary, jout>>
    /\ UNCHANGED jsonFrame

(* lines 291-318: one turn of the loop over txt_files *)
ParseFile ==
    /\ jpc = "loop"
    /\ jidx <= Len(txt_files)
    /\ LET tf == txt_files[jidx]
           r == build_intermediate(tf.text)
           item == [file |-> tf.name, ok |-> FALSE, error |-> r.err]
           err_path == with_suffix(tf.name, <<"parse-error", "json">>)
           out_path == with_suffix(tf.name, <<"json">>)
       IN  IF r.err # None
           THEN /\ summary' = [summary EXCEPT !.errors = @ + 1,
                                              !.items = Append(@, item)]
                /\ jout' = IF dry_run THEN jout
                           ELSE WriteText(jout, err_path, "error", tf.name, item)
           ELSE /\ jout' = IF dry_run THEN jout
                           ELSE WriteText(jout, out_path, "json", tf.name, r.data)
                /\ summary' = [summary EXCEPT
                                  !.ok = @ + 1,
                                  !.items = Append(@, [file |-> tf.name, ok |-> TRUE,
                                                       json |-> out_path])]
    /\ jidx' = jidx + 1
    /\ jpc' = IF jidx = Len(txt_files) THEN "report" ELSE "loop"
    /\ UNCHANGED <<txt_files, dry_run>>
    /\ UNCHANGED jsonFrame

(* lines 321-322: the batch report is written, dry run or not *)
WriteReport ==
    /\ jpc = "report"
    /\ jout' = WriteText(jout, ReportPath, "report", ReportPath, summary)
    /\ jpc' = "end"
    /\ UNCHANGED <<txt_files, dry_run, jidx, summary>>
    /\ UNCHANGED jsonFrame

NextJson ==
    \/ StartJson
    \/ ParseFile
    \/ WriteReport

SpecJson == InitJson /\ [][NextJson]_vars

----------------------------------------------------------------------------
(* Claims about the heuristic mode, checked under SpecJson *)

LacksNumber(t) == \A k \in 1..Len(t) : t[k] \notin {NumPhrase, NumUpper}
LacksCourt(t) == \A k \in 1..Len(t) : t[k] \notin {CosPhrase, ApPhrase}
MissingNames(t) ==
    (IF LacksNumber(t) THEN <<"docNumber">> ELSE <<>>)
        \o (IF LacksCourt(t) THEN <<"court">> ELSE <<>>)

(* C22: a file whose text has no document number or no recognisable court  *)
(* marker gets an error item naming the missing fields (in the summary     *)
(* and, unless the run is dry, in its parse-error file), no main JSON       *)
(* artifact is written for it, and the batch goes on: the files after it   *)
(* are processed and the report is written.                                *)
C22_MissingFieldsDiagnosedAndSkipped ==
    \A k \in 1..Len(txt_files) :
        LET tf == txt_files[k]
            item == [file |-> tf.name, ok |-> FALSE,
                     error |-> <<"Missing required fields">> \o MissingNames(tf.text)]
        IN  k < jidx /\ (LacksNumber(tf.text) \/ LacksCourt(tf.text)) =>
                /\ Len(summary.items) >= k
                /\ summary.items[k] = item
                /\ \A e \in jout : ~(e.kind = "json" /\ e.of = tf.name)
                /\ ~dry_run =>
                      \E e \in jout :
                          /\ e.path = SubSeq(tf.name, 1, Len(tf.name) - 1)
                                          \o <<"parse-error", "json">>
                          /\ e.kind = "error"
                          /\ e.content = item
                /\ jpc \in {"loop", "report", "end"}
                /\ jpc = "loop" => jidx <= Len(txt_files)
                /\ jpc = "end" =>
                      /\ Len(summary.items) = Len(txt_files)
                      /\ \E e \in jout : e.kind = "report" /\ e.content = summary

C22_Witness ==
    /\ jpc = "end"
    /\ ~dry_run
    /\ Len(txt_files) = 2
    /\ LacksNumber(txt_files[1].text)
    /\ LacksCourt(txt_files[1].text)
    /\ txt_files[1].text # <<>>
    /\ summary.items[1].ok = FALSE
    /\ summary.items[2].ok = TRUE
    /\ summary.errors = 1
    /\ \E e \in jout : e.kind = "json" /\ e.of = txt_files[2].name
    /\ \E e \in jout : e.kind = "error" /\ e.of = txt_files[1].name

----------------------------------------------------------------------------
(* process_one of the two fast scripts on one file, step by step: the      *)
(* named-entity merge steps, the serialization and the schema validation.  *)
(* AknJudgementXML.modifyReferencesFromGateXml, createNamedEntitiesInText   *)
(* and functions.validateXML are described by what the specification says  *)
(* of them; the call sites pass on whatever they raise.                    *)

NerFailed == "named-entity artifact malformed"
SchemaInvalid == "schema validation failed"
TaskFailed == "task failed"

Gates == {"absent", "wellformed", "malformed"}

(* the gate that lets the merge steps run whether the file exists or not *)
isfileAlways(g) == TRUE

(* os.path.isfile(gate_xml_file) *)
isfile(g) == g # "absent"

(* judgmentObj.modifyReferencesFromGateXml(gate_xml_file, refs_node): the  *)
(* entity-augmented references; a malformed artifact is logged and the     *)
(* references come back as they were                                       *)
modifyReferencesFromGateXml(g, refs_node) ==
    IF g = "wellformed"
    THEN [value |-> "augmented", log |-> {}, raised |-> "none"]
    ELSE [value |-> refs_node, log |-> {NerFailed}, raised |-> "none"]

(* judgmentObj.createNamedEntitiesInText(gate_xml_file, text): the text    *)
(* with entity markup; a malformed artifact is logged and the text comes   *)
(* back as it was                                                          *)
createNamedEntitiesInText(g, t) ==
    IF g = "wellformed"
    THEN [value |-> "marked", log |-> {}, raised |-> "none"]
    ELSE [value |-> t, log |-> {NerFailed}, raised |-> "none"]

(* validateXML('akomantoso30.xsd', xml_file, log_file): a validation       *)
(* failure is logged against the file                                      *)
validateXML(valid) ==
    [log |-> IF valid THEN {} ELSE {SchemaInvalid}, raised |-> "none"]

(* the positions of the try block, in the order of each script: the Areios *)
(* Pagos script parses before it injects the references (lines 100-134),   *)
(* the Council of State script injects them first (lines 171-204)          *)
StepsOf(s) ==
    IF s = "AP"
    THEN <<"parse", "refs", "text", "build", "write", "validate", "end">>
    ELSE <<"refs", "parse", "text", "build", "write", "validate", "end">>

After(s, p) ==
    LET steps == StepsOf(s)
        k == CHOOSE j \in 1..Len(steps) : steps[j] = p
    IN  steps[k + 1]

(* the except clauses, entered from position p with exception e *)
Caught(e, opened) ==
    /\ tstatus' = Handler(script, e).status
    /\ tside' = Handler(script, e).side
    /\ tlog' = tlog \cup {TaskFailed}
    /\ txml' = IF tpc = "write" /\ opened THEN "partial" ELSE txml
    /\ traisedAt' = tpc
    /\ tpc' = "end"

InitTask ==
    /\ script \in Scripts
    /\ BatchIdle
    /\ DatesIdle
    /\ OverrideIdle
    /\ SegIdle
    /\ IsoIdle
    /\ JsonIdle
    /\ LegacyIdle
    /\ WorkerIdle
    /\ gate \in Gates
    /\ hasRefs \in BOOLEAN
    /\ tpc = StepsOf(script)[1]
    /\ trefs = IF hasRefs THEN "plain" ELSE "none"
    /\ ttext = "none"
    /\ tlog = {}
    /\ txml = "none"
    /\ tside = "none"
    /\ tstatus = "none"
    /\ tvalidated = "no"
    /\ traisedAt = "none"

(* the two parser passes and the walk that fills judgmentObj.text *)
TaskParse ==
    /\ tpc = "parse"
    /\ ttext' = "plain"
    /\ tpc' = After(script, "parse")
    /\ UNCHANGED <<gate, hasRefs, trefs, tlog, txml, tside, tstatus, tvalidated, traisedAt>>
    /\ UNCHANGED taskFrame

(* AP lines 128-134, STE lines 171-176 *)
TaskMergeRefs ==
    /\ tpc = "refs"
    /\ IF isfile(gate) /\ hasRefs
       THEN LET r == modifyReferencesFromGateXml(gate, trefs) IN
            IF r.raised # "none"
            THEN /\ Caught(r.raised, FALSE)
                 /\ UNCHANGED <<trefs>>
            ELSE /\ trefs' = r.value
                 /\ tlog' = tlog \cup r.log
                 /\ tpc' = After(script, "refs")
                 /\ UNCHANGED <<txml, tside, tstatus, traisedAt>>
       ELSE /\ tpc' = After(script, "refs")
            /\ UNCHANGED <<trefs, tlog, txml, tside, tstatus, traisedAt>>
    /\ UNCHANGED <<gate, hasRefs, ttext, tvalidated>>
    /\ UNCHANGED taskFrame

(* AP lines 137-140, STE lines 206-207 *)
TaskMergeText ==
    /\ tpc = "text"
    /\ IF isfile(gate)
       THEN LET r == createNamedEntitiesInText(gate, ttext) IN
            IF r.raised # "none"
            THEN /\ Caught(r.raised, FALSE)
                 /\ UNCHANGED <<ttext>>
            ELSE /\ ttext' = r.value
                 /\ tlog' = tlog \cup r.log
                 /\ tpc' = After(script, "text")
                 /\ UNCHANGED <<txml, tside, tstatus, traisedAt>>
       ELSE /\ tpc' = After(script, "text")
            /\ UNCHANGED <<ttext, tlog, txml, tside, tstatus, traisedAt>>
    /\ UNCHANGED <<gate, hasRefs, trefs, tvalidated>>
    /\ UNCHANGED taskFrame

(* the root, the text fix-up, the judgment element and the dates *)
TaskBuild ==
    /\ tpc = "build"
    /\ tpc' = After(script, "build")
    /\ UNCHANGED <<gate, hasRefs, trefs, ttext, tlog, txml, tside, tstatus, tvalidated,
                   traisedAt>>
    /\ UNCHANGED taskFrame

(* AP lines 186-198, STE lines 256-260: the with block has been left, the  *)
(* file is closed                                                          *)
TaskWrite ==
    /\ tpc = "write"
    /\ txml' = "written"
    /\ tpc' = After(script, "write")
    /\ UNCHANGED <<gate, hasRefs, trefs, ttext, tlog, tside, tstatus, tvalidated, traisedAt>>
    /\ UNCHANGED taskFrame

(* the validation called from the position of the write as well *)
TaskValidateBeforeWrite(valid) ==
    /\ tpc \in {"write", "validate"}
    /\ LET r == validateXML(valid) IN
       IF r.raised # "none"
       THEN /\ Caught(r.raised, FALSE)
            /\ tvalidated' = IF valid THEN "valid" ELSE "invalid"
       ELSE /\ tvalidated' = IF valid THEN "valid" ELSE "invalid"
            /\ tlog' = tlog \cup r.log
            /\ tstatus' = "ok"
            /\ tpc' = "end"
            /\ UNCHANGED <<txml, tside, traisedAt>>
    /\ UNCHANGED <<gate, hasRefs, trefs, ttext>>
    /\ UNCHANGED taskFrame

(* AP lines 200-203, STE lines 262-264: validateXML, then status = 'ok' *)
TaskValidate(valid) ==
    /\ tpc = "validate"
    /\ LET r == validateXML(valid) IN
       IF r.raised # "none"
       THEN /\ Caught(r.raised, FALSE)
            /\ tvalidated' = IF valid THEN "valid" ELSE "invalid"
       ELSE /\ tvalidated' = IF valid THEN "valid" ELSE "invalid"
            /\ tlog' = tlog \cup r.log
            /\ tstatus' = "ok"
            /\ tpc' = "end"
            /\ UNCHANGED <<txml, tside, traisedAt>>
    /\ UNCHANGED <<gate, hasRefs, trefs, ttext>>
    /\ UNCHANGED taskFrame

(* an exception raised by the parsers, the assembly or the write *)
TaskRaise(e, opened) ==
    /\ tpc \in {"parse", "build", "write"}
    /\ Caught(e, opened)
    /\ UNCHANGED <<gate, hasRefs, trefs, ttext, tvalidated>>
    /\ UNCHANGED taskFrame

NextTask ==
    \/ TaskParse
    \/ TaskMergeRefs
    \/ TaskMergeText
    \/ TaskBuild
    \/ TaskWrite
    \/ \E valid \in BOOLEAN : TaskValidate(valid)
    \/ \E e \in {"XMLSyntaxError", "Exception"}, opened \in BOOLEAN : TaskRaise(e, opened)

SpecTask == InitTask /\ [][NextTask]_vars

----------------------------------------------------------------------------
(* Claims about the merge steps and the validation, checked under SpecTask *)

Unmodified ==
    /\ trefs = (IF hasRefs THEN "plain" ELSE "none")
    /\ ttext \in {"none", "plain"}

(* both merge steps lie behind *)
MergesBehind ==
    \/ tpc \in {"build", "write", "validate"}
    \/ tpc = "end" /\ traisedAt \in {"none", "build", "write", "validate"}

----------------------------------------------------------------------------
(* The legacy sequential scripts beside the fast parallel ones: one input  *)
(* file is processed by both, each leaving an XML artifact or a side text. *)
(* A file name is a sequence of tokens (letters, a blank, digits, "_",     *)
(* the extension).  In a raw line, ws says that the line has leading and   *)
(* trailing whitespace.                                                    *)

MaxRaw == 5

NumIndented == [ws |-> TRUE, words |-> <<"Ariqmo's", "77/2020">>]
LegacyPool == {Blank, NumLine, NumIndented, TrialLine, CourtLine, DeptLine}
LegacyTexts == UNION {[1..n -> LegacyPool] : n \in 0..MaxRaw}

FileNames ==
    { <<"A", " ", "123", "_", "2024", ".txt">>,
      <<"Ar", " ", "123", "_", "2024", ".txt">>,
      <<"x", "A", " ", "7", "_", "2020", ".txt">>,
      <<"A", "123", "_", "2024", ".txt">>,
      <<"123", "_", "2024", ".txt">>,
      <<"A", " ", "123", "-", "2024", ".txt">> }

DigitTokens == {"123", "2024", "7", "2020"}

(* re.search(r'Ar?\s+(?P<decisionNumber>\d+)[_](?P<issueYear>\d+)', name):  *)
(* the position of the match, 0 when there is none                          *)
NameMatch(name) ==
    LET hits == {k \in 1..(Len(name) - 4) :
                    /\ name[k] \in {"A", "Ar"}
                    /\ name[k + 1] = " "
                    /\ name[k + 2] \in DigitTokens
                    /\ name[k + 3] = "_"
                    /\ name[k + 4] \in DigitTokens}
    IN  IF hits = {} THEN 0 ELSE CHOOSE k \in hits : \A j \in hits : k <= j

Faults == {"none", "parse:XMLSyntaxError", "parse:Exception",
           "build:XMLSyntaxError", "build:Exception"}
FaultType(f) ==
    IF f \in {"parse:XMLSyntaxError", "build:XMLSyntaxError"} THEN "XMLSyntaxError"
    ELSE "Exception"

(* the except clauses of either Areios Pagos script: no XML, a side text *)
Failed(e) == [wrote |-> FALSE, xml |-> [none |-> TRUE], side |-> Handler("AP", e).side]

ApXml(number, year) ==
    [wrote |-> TRUE, xml |-> [decisionNumber |-> number, issueYear |-> year], side |-> "none"]

(* createAreiosPagosJudgmentsAkn.py lines 109-252: meta has the keys       *)
(* decisionNumber and issueYear only when the name matches, and reading    *)
(* them at line 124 raises KeyError otherwise                              *)
LegacyAP(name, fault) ==
    LET m == NameMatch(name) IN
    IF m = 0 THEN Failed("Exception")
    ELSE IF fault # "none" THEN Failed(FaultType(fault))
    ELSE ApXml(<<name[m + 2]>>, <<name[m + 4]>>)

(* areiosPagosAknCliLegacyFast.py lines 85-224: meta starts with both keys *)
(* set to ''                                                               *)
FastAP(name, fault) ==
    LET m == NameMatch(name) IN
    IF fault # "none" THEN Failed(FaultType(fault))
    ELSE IF m = 0 THEN ApXml(<<"">>, <<"">>)
    ELSE ApXml(<<name[m + 2]>>, <<name[m + 4]>>)

(* createCouncilOfStateJudgmentsAkn.py lines 143-168: the anchors are       *)
(* found with ln.startswith("Ariqmo's") on the raw line and                 *)
(* ln.strip().startswith("Gia na dika'sei"); next() without a default,      *)
(* split(" ",1)[1] and raw[idx] raise when there is nothing to take         *)
LegacyScan(lines) ==
    LET numHits == {k \in 1..Len(lines) :
                       /\ ~lines[k].ws
                       /\ Len(lines[k].words) >= 1
                       /\ lines[k].words[1] = "Ariqmo's"}
        trialHits == {k \in 1..Len(lines) :
                         /\ Len(strip(lines[k])) >= 3
                         /\ SubSeq(strip(lines[k]), 1, 3) = <<"Gia", "na", "dika'sei">>}
        idx_num == IF numHits = {} THEN 0
                   ELSE CHOOSE k \in numHits : \A j \in numHits : k <= j
        intro_idx == IF trialHits = {} THEN 0
                     ELSE CHOOSE k \in trialHits : \A j \in trialHits : k <= j
        idxP == SkipBlank(lines, idx_num + 1)
        idxS == SkipBlank(lines, idxP + 1)
        hd_start == idxS + 1
        raised == \/ idx_num = 0
                  \/ Len(lines[idx_num].words) < 2
                  \/ idxP > Len(lines)
                  \/ idxS > Len(lines)
                  \/ intro_idx = 0
    IN  IF raised
        THEN [NoFields EXCEPT !.idx_num = -1]
        ELSE [idx_num |-> idx_num,
              intro_idx |-> intro_idx,
              docNumber |-> Tail(lines[idx_num].words),
              docProponent |-> strip(lines[idxP]),
              subDepartment |-> strip(lines[idxS]),
              headerDetails |-> JoinLines(SubSeq(lines, hd_start, intro_idx - 1)),
              introduction_block |-> Paragraphs(SubSeq(lines, intro_idx, Len(lines)))]

SteXml(f) ==
    [wrote |-> TRUE,
     xml |-> [hdr |-> HeaderRewrite(SkelHdr, f), intro |-> IntroRewrite(SkelIntro, f)],
     side |-> "none"]

(* createCouncilOfStateJudgmentsAkn.py lines 143-285: an exception of the  *)
(* scan leaves no artifact at all                                          *)
LegacySTE(lines) ==
    LET f == LegacyScan(lines) IN
    IF f.idx_num = -1 THEN NoOut ELSE SteXml(f)

(* steAknCliLegacyFast.py lines 127-265 *)
FastSTE(lines) == SteXml(Scan(lines))

InitLegacy ==
    /\ script \in Scripts
    /\ BatchIdle
    /\ DatesIdle
    /\ OverrideIdle
    /\ SegIdle
    /\ IsoIdle
    /\ JsonIdle
    /\ TaskIdle
    /\ WorkerIdle
    /\ IF script = "AP"
       THEN /\ lname \in FileNames
            /\ lfault \in Faults
            /\ lraw = <<>>
       ELSE /\ lname = <<>>
            /\ lfault = "none"
            /\ lraw \in LegacyTexts
    /\ lran = {}
    /\ legacyOut = NoOut
    /\ fastOut = NoOut

RunLegacyAP ==
    /\ script = "AP"
    /\ "legacy" \notin lran
    /\ legacyOut' = LegacyAP(lname, lfault)
    /\ lran' = lran \cup {"legacy"}
    /\ UNCHANGED <<lname, lfault, lraw, fastOut>>
    /\ UNCHANGED legacyFrame

RunFastAP ==
    /\ script = "AP"
    /\ "fast" \notin lran
    /\ fastOut' = FastAP(lname, lfault)
    /\ lran' = lran \cup {"fast"}
    /\ UNCHANGED <<lname, lfault, lraw, legacyOut>>
    /\ UNCHANGED legacyFrame

RunLegacySTE ==
    /\ script = "STE"
    /\ "legacy" \notin lran
    /\ legacyOut' = LegacySTE(lraw)
    /\ lran' = lran \cup {"legacy"}
    /\ UNCHANGED <<lname, lfault, lraw, fastOut>>
    /\ UNCHANGED legacyFrame

RunFastSTE ==
    /\ script = "STE"
    /\ "fast" \notin lran
    /\ fastOut' = FastSTE(lraw)
    /\ lran' = lran \cup {"fast"}
    /\ UNCHANGED <<lname, lfault, lraw, legacyOut>>
    /\ UNCHANGED legacyFrame

NextLegacy ==
    \/ RunLegacyAP
    \/ RunFastAP
    \/ RunLegacySTE
    \/ RunFastSTE

SpecLegacy == InitLegacy /\ [][NextLegacy]_vars

----------------------------------------------------------------------------
(* Claims about the legacy and the fast scripts, checked under SpecLegacy *)

BothRan == lran = {"legacy", "fast"}

(* C25: on every input file the two Areios Pagos scripts reach the same    *)
(* outcome: the same XML artifact when the legacy script writes one, the   *)
(* same side text artifact (and no XML) when it fails.                     *)
C25_ApFastEqualsLegacy ==
    script = "AP" /\ BothRan =>
        /\ legacyOut.wrote => fastOut.wrote /\ fastOut.xml = legacyOut.xml
        /\ ~legacyOut.wrote => ~fastOut.wrote /\ fastOut.side = legacyOut.side

(* C26: on every Council of State input for which the legacy script writes *)
(* an XML artifact the fast script writes the same header and introduction *)
C26_SteFastEqualsLegacy ==
    script = "STE" /\ BothRan /\ legacyOut.wrote =>
        /\ fastOut.wrote
        /\ fastOut.xml = legacyOut.xml


(***************************************************************************)
(* parse_worker.py: the parsing-request worker.  The web application       *)
(* inserts pending requests (judgmentsUI/app.py, trigger_parse); main      *)
(* fetches the pending ones sorted by requested_at and processes them one  *)
(* after the other.  A run of main may be followed by another run.         *)
(***************************************************************************)
MaxReq == 2
MaxClock == 2

\* The five commands of process_request, in the order of the code.
Commands == <<"STE_SCRAPER", "scrapy crawl CyLaw", "COUNCIL_XML", "AREIOS_XML", "INGESTION_SCRIPT">>

\* What subprocess.run can do: return with a return code, or raise OSError
\* (the executable is missing).
RunOutcomes == {[raised |-> "none", returncode |-> 0],
                [raised |-> "none", returncode |-> 1],
                [raised |-> "OSError", returncode |-> 0]}

\* run_or_die (lines 25-30): the exception that leaves the call, or "none".
run_or_dieUnchecked(r) ==
    r.raised
run_or_die(r) ==
    IF r.raised # "none" THEN r.raised
    ELSE IF r.returncode # 0 THEN "RuntimeError"
    ELSE "none"

PendingIds(col) == {i \in 1..Len(col) : col[i].status = "pending"}

\* find({"status":"pending"}).sort("requested_at", 1): the pending documents
\* in ascending requested_at order; documents with equal requested_at come in
\* an order the sort does not fix.
SortedPending(col) ==
    LET ids == PendingIds(col)
        n == Cardinality(ids)
    IN  {s \in [1..n -> ids] :
            /\ \A i, j \in 1..n : i # j => s[i] # s[j]
            /\ \A i, j \in 1..n : i < j => col[s[i]].requested_at <= col[s[j]].requested_at}

InitWorkerSpec ==
    /\ script \in Scripts
    /\ BatchIdle
    /\ DatesIdle
    /\ OverrideIdle
    /\ SegIdle
    /\ IsoIdle
    /\ JsonIdle
    /\ TaskIdle
    /\ LegacyIdle
    /\ reqs = <<>>
    /\ now = 1
    /\ wpc = "idle"
    /\ pending = <<>>
    /\ wpos = 0
    /\ wcmd = 0
    /\ wlog = <<>>

\* trigger_parse (judgmentsUI/app.py 292-309): insert one pending request
\* stamped with the reading of the wall clock, which can be set back.
trigger_parse(t) ==
    /\ Len(reqs) < MaxReq
    /\ now' = t
    /\ reqs' = Append(reqs, [requested_at |-> t, status |-> "pending"])
    /\ UNCHANGED <<wpc, pending, wpos, wcmd, wlog, workerFrame>>

\* main, lines 61-67: fetch the pending requests; return if there are none.
MainStart(snapshot) ==
    /\ wpc \in {"idle", "end"}
    /\ snapshot \in SortedPending(reqs)
    /\ pending' = snapshot
    /\ IF snapshot = <<>>
       THEN /\ wpc' = "end"
            /\ wpos' = 0
            /\ wcmd' = 0
       ELSE /\ wpc' = "run"
            /\ wpos' = 1
            /\ wcmd' = 1
    /\ UNCHANGED <<reqs, now, wlog, workerFrame>>

\* The loop of main moves to the next fetched request, or ends.
NextRequest ==
    IF wpos < Len(pending)
    THEN /\ wpc' = "run"
         /\ wpos' = wpos + 1
         /\ wcmd' = 1
    ELSE /\ wpc' = "end"
         /\ wpos' = wpos
         /\ wcmd' = 0

\* One run_or_die call of process_request (lines 36-48).  When it raises,
\* the exception leaves process_request and the handler of main (lines 72-81)
\* marks the request error; after the fifth command lines 50-58 mark it done.
RunCommand(r) ==
    /\ wpc = "run"
    /\ wcmd \in 1..Len(Commands)
    /\ LET id == pending[wpos]
           e == run_or_die(r)
       IN  IF e # "none"
           THEN /\ wlog' = Append(wlog, <<id, wcmd, "failed">>)
                /\ reqs' = [reqs EXCEPT ![id].status = "error"]
                /\ NextRequest
           ELSE /\ wlog' = Append(wlog, <<id, wcmd, IF r.returncode = 0 THEN "ok" ELSE "failed">>)
                /\ IF wcmd < Len(Commands)
                   THEN /\ wcmd' = wcmd + 1
                        /\ UNCHANGED <<reqs, wpc, wpos>>
                   ELSE /\ reqs' = [reqs EXCEPT ![id].status = "done"]
                        /\ NextRequest
    /\ UNCHANGED <<now, pending, workerFrame>>

NextWorker ==
    \/ \E t \in 1..MaxClock : trigger_parse(t)
    \/ \E snapshot \in SortedPending(reqs) : MainStart(snapshot)
    \/ \E r \in RunOutcomes : RunCommand(r)

SpecWorker == InitWorkerSpec /\ [][NextWorker]_vars

LogOf(id) == SelectSeq(wlog, LAMBDA e : e[1] = id)

\* The commands logged for a request are 1, 2, ... in order, next to each
\* other in the log, and only the last of them can have failed.
RanInOrder(id) ==
    LET l == LogOf(id)
    IN  /\ \A k \in DOMAIN l : l[k][2] = k
        /\ \A k \in DOMAIN l : k < Len(l) => l[k][3] = "ok"
        /\ \A i, j \in DOMAIN wlog :
              (i < j /\ wlog[i][1] = id /\ wlog[j][1] = id) =>
                  \A m \in i..j : wlog[m][1] = id

StatusMatchesLog(id) ==
    LET l == LogOf(id)
    IN  /\ reqs[id].status = "done" <=>
              (Len(l) = Len(Commands) /\ \A k \in DOMAIN l : l[k][3] = "ok")
        /\ reqs[id].status = "error" <=>
              (l # <<>> /\ l[Len(l)][3] = "failed")

FetchedAscending ==
    \A p, q \in DOMAIN pending :
        p < q => /\ reqs[pending[p]].requested_at <= reqs[pending[q]].requested_at
                 /\ \A i, j \in DOMAIN wlog :
                       (wlog[i][1] = pending[p] /\ wlog[j][1] = pending[q]) => i < j

WorkerMovesOn ==
    /\ wpc = "run" =>
          /\ reqs[pending[wpos]].status = "pending"
          /\ \A p \in 1..(wpos - 1) : reqs[pending[p]].status \in {"done", "error"}
    /\ wpc = "end" =>
          \A p \in DOMAIN pending : reqs[pending[p]].status \in {"done", "error"}

WorkerInv ==
    /\ FetchedAscending
    /\ WorkerMovesOn
    /\ \A id \in DOMAIN reqs : RanInOrder(id) /\ StatusMatchesLog(id)

NeverBackToPending ==
    \A id \in DOMAIN reqs :
        reqs[id].status \in {"done", "error"} => reqs'[id].status # "pending"

\* C27: the worker processes the fetched pending requests in ascending
\* requested_at order; for each it runs the five commands in order, marks it
\* done exactly when all five succeeded, stops at the first failing command
\* and marks it error, and goes on with the next fetched request; a request
\* that is done or error never becomes pending again.
C27_WorkerPipelineOrder ==
    []WorkerInv /\ [][NeverBackToPending]_vars

\* A run that fetched two requests has ended: the first failed at its third
\* command and is error, the second ran all five and is done.
C27_Witness ==
    /\ wpc = "end"
    /\ Len(pending) = 2
    /\ reqs[pending[1]].status = "error"
    /\ Len(LogOf(pending[1])) = 3
    /\ reqs[pending[2]].status = "done"
    /\ Len(LogOf(pending[2])) = 5
====
